---- MODULE Spec2Model ----
(***************************************************************************)
(* Model of the frame processing pipeline of modules/skeletor-py:          *)
(* video_processor.process_video (control loop), frame_reader (reader      *)
(* thread), process_frame (worker task run by a ThreadPoolExecutor) and    *)
(* the ffmpeg sink process fed through its stdin pipe; and of what a       *)
(* worker task computes: pose_detector.detect_pose (letterbox, model,      *)
(* mapping of the keypoints back to the frame) and masking.create_mask     *)
(* (torso, skeleton lines, joint circles).                                 *)
(*                                                                         *)
(* Conventions                                                             *)
(*   - a frame is a record [pos, shape]: pos is its position in the source *)
(*     (its pixel content), shape is <<h, w, c>>, or <<>> for a frame that *)
(*     is None / not an array;                                             *)
(*   - a queue item is <<frame, frame_idx>> (the params dictionary of the  *)
(*     Python tuple is the shared processing_params), the sentinel None is *)
(*     the empty tuple;                                                    *)
(*   - a future is identified by the frame index it was submitted for;     *)
(*   - an optional value (return_code, the value returned by               *)
(*     process_video) is <<>> when unset and <<v>> when set;               *)
(*   - sink is the sequence of the frame indices whose bytes ffmpeg's      *)
(*     stdin accepted;                                                     *)
(*   - a float is an exact fraction <<numerator, denominator>>, a          *)
(*     confidence a whole number of hundredths;                            *)
(*   - movenet_signature is <<>> for None and otherwise << output_data >>, *)
(*     output_data being what the model returns for the frames of the run; *)
(*     model_input_size is 0 for None;                                     *)
(*   - a mask is the list of what was drawn on it, person by person.       *)
(*                                                                         *)
(* Granularity                                                             *)
(*   - one step per access to what the threads share (queue, abort flag,   *)
(*     executor work items, capture);                                      *)
(*   - CtrlCollect is steps 2 and 3 of one loop iteration: after the       *)
(*     f.done() tests it touches only locals of process_video and the      *)
(*     pipe, until a failed write sets the abort flag;                     *)
(*   - ReaderSentinel is the whole sentinel loop of frame_reader: the      *)
(*     control loop reads at most one sentinel, so every interleaving of   *)
(*     the puts shows it the same as all puts made at one of their times;  *)
(*   - any frame may be invalid and any task may raise: per-frame errors   *)
(*     are not bounded.                                                    *)
(***************************************************************************)
EXTENDS Integers, Sequences, FiniteSets, TLC

\* ------------------------------------------------------------------ bounds
\* number of frames the source yields before cap.read() reports ret = False
NumFrames == 3
\* largest num_threads tried
MaxThreads == 2
\* the largest source width and height of the geometry and detection runs
MaxDim == 5
\* model_input_size: the side of the square canvas the model takes
ModelInputSize == 3
\* the largest radius argument tried
MaxRadius == 6
\* the largest dilation_iterations argument tried
MaxIterations == 2
\* the largest blur_kernel_size argument tried
MaxKernel == 4

\* ------------------------------------------------------------ input domains
\* (width, height) reported by the capture and carried by every decoded frame
SourceDims == { <<4, 3>> }
\* processing_width argument; 0 stands for None
ProcessingWidths == { 0, 2 }
\* frame rates the capture may report (CAP_PROP_FPS); none is positive but 30
FrameRates == { 0, 30 }
\* colours of the sample pixel in the source: black, white and one between
SampleColours == { 0, 100, 255 }
\* values of the mask at the sample pixel: every fifth level from 0 to 255,
\* the levels next to the ends, and two at which colour 100 blends to a whole
\* number
SampleMasks == { m \in 0..255 : m % 5 = 0 } \cup { 1, 51, 102, 254 }
\* where an exception is raised inside process_frame:
\*   "none"  no exception,
\*   "body"  after frame_data was unpacked (resize, create_mask, apply_mask),
\*   "early" before params was bound
Faults == { "none", "body", "early" }

VARIABLES
  \* arguments and source
  num_threads, processing_width, movenet_signature, model_input_size,
  radius, confidence_threshold, dilation_iterations, blur_kernel_size,
  video, cap, cap_pos,
  \* one pixel of the frames: its colour in the source and the value a mask
  \* that something was drawn on has there after dilation and blur
  sample,
  \* shared between the threads
  processing_params, frame_queue, processing_done,
  \* frame_reader locals
  r_pc, frame_idx, frame_read_count, r_frame,
  \* process_video locals
  c_pc, end_of_frames_signal_received, futures, results,
  next_frame_to_write, frames_processed, frames_read_from_queue,
  frames_written, return_code, retval,
  \* the executor's work items
  tasks,
  \* the sink: ffmpeg process, its stdin pipe and the frames it received
  ffmpeg_process, pipe_broken, sink,
  \* concurrent invocations of process_video: the queue.Queue and
  \* threading.Event objects constructed so far, and the locals of each
  \* invocation
  queues, events, runs,
  \* main.py: the control loop's count of gets that timed out in a row
  timeout_counter

vars == << num_threads, processing_width, movenet_signature,
           model_input_size, radius, confidence_threshold,
           dilation_iterations, blur_kernel_size, sample, video, cap, cap_pos,
           processing_params, frame_queue, processing_done,
           r_pc, frame_idx, frame_read_count, r_frame,
           c_pc, end_of_frames_signal_received, futures, results,
           next_frame_to_write, frames_processed, frames_read_from_queue,
           frames_written, return_code, retval, tasks,
           ffmpeg_process, pipe_broken, sink, queues, events, runs,
           timeout_counter >>

\* ----------------------------------------------------------------- helpers
None == << >>
\* a value that may be None, when it is not
Some(v) == << v >>
EmptyMap == [k \in {} |-> None]
Max(a, b) == IF a >= b THEN a ELSE b
\* the dict after results[k] was read and left in place
Pop_Get(f, k) == f
\* the dict after results.pop(k)
Pop(f, k) == [j \in (DOMAIN f) \ {k} |-> f[j]]

\* frame_queue = queue.Queue(maxsize=num_threads * 4)
QueueMaxsize(n) == n * 4

\* the get of a queue that hands out the newest item first
QueueGet_Newest(q) ==
  [item |-> q[Len(q)], rest |-> SubSeq(q, 1, Len(q) - 1)]

\* queue.Queue.get on a queue that is not empty: the oldest item, and the
\* queue without it
QueueGet(q) == [item |-> Head(q), rest |-> Tail(q)]

\* queue.Queue: a put finds room unless 0 < maxsize <= qsize
QueueHasRoom(q, maxsize) == maxsize <= 0 \/ Len(q) < maxsize

\* the source file: what cv2.VideoCapture reports of it
Source(frames, fps, readable, d) ==
  [frames |-> frames, fps |-> fps, readable |-> readable,
   width |-> d[1], height |-> d[2], fails |-> FALSE]

\* a source whose decoding may raise in cap.read(): frame_reader catches
\* queue.Full only, so the exception ends the reader thread
FailingSource(frames, d) ==
  [Source(frames, 30, TRUE, d) EXCEPT !.fails = TRUE]

\* the test of the video properties that forgets the frame rate
InvalidProperties_FramesOnly(total_frames, fps) == total_frames <= 0

\* if total_frames <= 0 or fps <= 0
InvalidProperties(total_frames, fps) == total_frames <= 0 \/ fps <= 0

\* ThreadPoolExecutor(max_workers=...) raises ValueError for max_workers <= 0
ExecutorRejects(max_workers) == max_workers <= 0

\* a blank frame of three channels
Blank_Bgr(params) ==
  [shape |-> << params.target_h, params.target_w, 3 >>, kind |-> "blank",
   pixel |-> [colour |-> 0, alpha |-> 0]]

\* np.zeros((target_h, target_w, 4)): the blank, fully transparent frame
Blank(params) ==
  [shape |-> << params.target_h, params.target_w, 4 >>, kind |-> "blank",
   pixel |-> [colour |-> 0, alpha |-> 0]]

NoResult == [shape |-> << >>, kind |-> "none", pixel |-> None]

\* the target dimensions without the step to an even height
TargetDims_NoEven(ow, oh, pw) ==
  IF pw # 0 /\ pw > 0 /\ pw < ow
  THEN << pw, (pw * oh) \div ow >>
  ELSE << ow, oh >>

\* target_w, target_h of process_video; (pw * oh) \div ow is
\* int(target_w * (orig_h / orig_w)): the double product has the floor of the
\* exact quotient for the widths and heights used here
TargetDims(ow, oh, pw) ==
  IF pw # 0 /\ pw > 0 /\ pw < ow
  THEN LET th == (pw * oh) \div ow
       IN  << pw, IF th % 2 = 0 THEN th ELSE th + 1 >>
  ELSE << ow, oh >>

ProcessingParams(ow, oh, pw, n, threshold, r, iterations, kernel_size) ==
  [ confidence_threshold |-> threshold,
    radius |-> r,
    dilation_iterations |-> iterations,
    blur_kernel_size |-> kernel_size,
    target_w |-> TargetDims(ow, oh, pw)[1],
    target_h |-> TargetDims(ow, oh, pw)[2],
    orig_w |-> ow,
    num_threads |-> n ]

NoParams ==
  [confidence_threshold |-> 0, radius |-> 0, dilation_iterations |-> 0,
   blur_kernel_size |-> 0, target_w |-> 0, target_h |-> 0, orig_w |-> 0,
   num_threads |-> 0]

\* ------------------------------------------------------------------ config
\* KEYPOINT_DICT: joint names to keypoint indices
KEYPOINT_DICT ==
  [ nose |-> 0, left_eye |-> 1, right_eye |-> 2, left_ear |-> 3,
    right_ear |-> 4, left_shoulder |-> 5, right_shoulder |-> 6,
    left_elbow |-> 7, right_elbow |-> 8, left_wrist |-> 9,
    right_wrist |-> 10, left_hip |-> 11, right_hip |-> 12,
    left_knee |-> 13, right_knee |-> 14, left_ankle |-> 15,
    right_ankle |-> 16 ]

\* the keypoint indices of one pose: the rows of the (17, 3) array
Keypoints == { KEYPOINT_DICT[name] : name \in DOMAIN KEYPOINT_DICT }

\* SKELETON_LINES: the edges connecting keypoints
SKELETON_LINES ==
  << << KEYPOINT_DICT.left_shoulder, KEYPOINT_DICT.right_shoulder >>,
     << KEYPOINT_DICT.left_shoulder, KEYPOINT_DICT.left_elbow >>,
     << KEYPOINT_DICT.right_shoulder, KEYPOINT_DICT.right_elbow >>,
     << KEYPOINT_DICT.left_elbow, KEYPOINT_DICT.left_wrist >>,
     << KEYPOINT_DICT.right_elbow, KEYPOINT_DICT.right_wrist >>,
     << KEYPOINT_DICT.left_shoulder, KEYPOINT_DICT.left_hip >>,
     << KEYPOINT_DICT.right_shoulder, KEYPOINT_DICT.right_hip >>,
     << KEYPOINT_DICT.left_hip, KEYPOINT_DICT.right_hip >>,
     << KEYPOINT_DICT.left_hip, KEYPOINT_DICT.left_knee >>,
     << KEYPOINT_DICT.right_hip, KEYPOINT_DICT.right_knee >>,
     << KEYPOINT_DICT.left_knee, KEYPOINT_DICT.left_ankle >>,
     << KEYPOINT_DICT.right_knee, KEYPOINT_DICT.right_ankle >> >>

\* ------------------------------------------------------------ pose_detector
\* A float is the fraction << numerator, denominator >> with a positive
\* denominator; a score is a whole number of hundredths. A keypoint is a
\* record [y, x, score]; a pose is a function from Keypoints to keypoints; the
\* model's output_data is a sequence of records [keypoints, score], score
\* being bbox[4], of length 1 for a single-pose model.

\* scale = min(model_input_size / h_proc, model_input_size / w_proc)
Scale(h_proc, w_proc, input_size) == << input_size, Max(h_proc, w_proc) >>

\* int(h_proc * scale), int(w_proc * scale)
Resized(side, scale) == (side * scale[1]) \div scale[2]

\* pad_y = (model_input_size - new_h) // 2
Padding(input_size, new_side) == (input_size - new_side) \div 2

\* where lines 39-54 put the source pixel row (column) p of a frame of `side`
\* rows (columns) on the canvas, normalised by the canvas size: the resize
\* to new_side rows maps p to p * new_side / side, the canvas adds the padding
Letterbox(p, side, new_side, pad, input_size) ==
  << p * new_side + pad * side, side * input_size >>

\* the de-normalisation that forgets the padding
Denormalise_NoPad(norm, input_size, pad, scale) ==
  << norm[1] * input_size * scale[2], norm[2] * scale[1] >>

\* (norm * model_input_size - pad) / scale
Denormalise(norm, input_size, pad, scale) ==
  << (norm[1] * input_size - pad * norm[2]) * scale[2], norm[2] * scale[1] >>

\* the clip that has no lower end
Clip_NoLower(v, lo, hi) ==
  IF v[1] > hi * v[2] THEN << hi, 1 >> ELSE v

\* np.clip(v, lo, hi)
Clip(v, lo, hi) ==
  IF v[1] < lo * v[2] THEN << lo, 1 >>
  ELSE IF v[1] > hi * v[2] THEN << hi, 1 >>
  ELSE v

\* np.max(keypoints_with_scores[:, 2])
MaxScore(keypoints_with_scores) ==
  CHOOSE m \in { keypoints_with_scores[j].score : j \in Keypoints } :
    \A j \in Keypoints : keypoints_with_scores[j].score <= m

\* the test of the model that forgets the signature
ModelMissing_SizeOnly(signature, input_size) == input_size = 0

\* if model_input_size is None ... if movenet_signature is None
ModelMissing(signature, input_size) == input_size = 0 \/ signature = None

\* detect_pose(frame, movenet_signature, model_input_size,
\* confidence_threshold): None (invalid frame; an exception, as the one
\* cv2.resize raises for an empty target size) or the list of detected
\* persons, which may be empty.
detect_pose(frame_shape, signature, input_size, threshold) ==
  IF frame_shape = << >>
  THEN None
  ELSE
    LET output_data == IF signature = None THEN << >> ELSE signature[1]
        h_proc == frame_shape[1]
        w_proc == frame_shape[2]
        scale == Scale(h_proc, w_proc, input_size)
        new_h == Resized(h_proc, scale)
        new_w == Resized(w_proc, scale)
        pad_y == Padding(input_size, new_h)
        pad_x == Padding(input_size, new_w)
        y_final(kp) ==
          Clip(Denormalise(kp.y, input_size, pad_y, scale), 0, h_proc - 1)
        x_final(kp) ==
          Clip(Denormalise(kp.x, input_size, pad_x, scale), 0, w_proc - 1)
        single(kws) ==
          [j \in Keypoints |->
             [y |-> y_final(kws[j]), x |-> x_final(kws[j]),
              score |-> kws[j].score]]
        multi(kws) ==
          [j \in Keypoints |->
             IF kws[j].score > threshold
             THEN [y |-> y_final(kws[j]), x |-> x_final(kws[j]),
                   score |-> kws[j].score]
             ELSE [y |-> << 0, 1 >>, x |-> << 0, 1 >>,
                   score |-> kws[j].score]]
        detected == SelectSeq(output_data,
                              LAMBDA person : person.score > threshold)
    IN  IF h_proc <= 0 \/ w_proc <= 0 \/ frame_shape[3] # 3
        THEN None
        ELSE IF ModelMissing(signature, input_size)
        THEN \* raise RuntimeError, caught at line 140
             None
        ELSE IF new_h <= 0 \/ new_w <= 0
        THEN None
        ELSE IF Len(output_data) = 1
        THEN IF MaxScore(output_data[1].keypoints) > threshold
             THEN Some(<< single(output_data[1].keypoints) >>)
             ELSE Some(<< >>)
        ELSE Some([i \in 1..Len(detected) |-> multi(detected[i].keypoints)])

\* ------------------------------------------------------------------ masking
\* The mask is its shape and what was done to it: per person the filled
\* polygons, the lines and the filled circles drawn on it, each with the
\* keypoint indices it was drawn for; then the iterations of each cv2.dilate
\* call and the kernel size of each cv2.GaussianBlur call. A point is
\* << x, y >>, the order OpenCV takes.

\* a mask of zeros with rows and columns exchanged
Zeros_Transposed(shape) ==
  [shape |-> << shape[2], shape[1] >>, drawn |-> << >>, dilate |-> << >>,
   blur |-> << >>]

\* np.zeros(shape, dtype=np.uint8)
Zeros(shape) ==
  [shape |-> shape, drawn |-> << >>, dilate |-> << >>, blur |-> << >>]

\* every pixel of the mask is 0: nothing was drawn on it (dilation and blur
\* of zeros are zeros)
AllZero(mask) ==
  \A i \in DOMAIN mask.drawn :
    /\ mask.drawn[i].polygons = {}
    /\ mask.drawn[i].lines = {}
    /\ mask.drawn[i].circles = {}

\* (int(kp[1]), int(kp[0])); the coordinates are not negative
Point(kp) == << kp.x[1] \div kp.x[2], kp.y[1] \div kp.y[2] >>

\* joint_radius = max(1, int(radius * 0.8)); line_thickness = joint_radius
JointRadius(r) == Max(1, (r * 4) \div 5)

\* the torso test without the right hip
TorsoValid_NoRightHip(person_kps, threshold) ==
  /\ person_kps[KEYPOINT_DICT.left_shoulder].score > threshold
  /\ person_kps[KEYPOINT_DICT.right_shoulder].score > threshold
  /\ person_kps[KEYPOINT_DICT.left_hip].score > threshold

\* torso_valid
TorsoValid(person_kps, threshold) ==
  /\ person_kps[KEYPOINT_DICT.left_shoulder].score > threshold
  /\ person_kps[KEYPOINT_DICT.right_shoulder].score > threshold
  /\ person_kps[KEYPOINT_DICT.left_hip].score > threshold
  /\ person_kps[KEYPOINT_DICT.right_hip].score > threshold

\* torso_pts
TorsoPts(person_kps) ==
  << Point(person_kps[KEYPOINT_DICT.left_shoulder]),
     Point(person_kps[KEYPOINT_DICT.right_shoulder]),
     Point(person_kps[KEYPOINT_DICT.right_hip]),
     Point(person_kps[KEYPOINT_DICT.left_hip]) >>

\* the line test that takes a confidence equal to the threshold
LineValid_OrEqual(kp1, kp2, threshold) ==
  kp1.score >= threshold /\ kp2.score >= threshold

\* if kp1[2] > confidence_threshold and kp2[2] > confidence_threshold
LineValid(kp1, kp2, threshold) ==
  kp1.score > threshold /\ kp2.score > threshold

\* the skeleton lines drawn for one person, by their place in SKELETON_LINES
DrawnLines(person_kps, threshold) ==
  { i \in DOMAIN SKELETON_LINES :
      LineValid(person_kps[SKELETON_LINES[i][1]],
                person_kps[SKELETON_LINES[i][2]], threshold) }

\* all_points after the line loop: the points of the ends of the drawn lines
AllPoints(person_kps, threshold) ==
  LET cached == UNION { { SKELETON_LINES[i][1], SKELETON_LINES[i][2] } :
                          i \in DrawnLines(person_kps, threshold) }
  IN  [idx \in cached |-> Point(person_kps[idx])]

\* the joints circled, were every keypoint among them
JointIndices_All == Keypoints

\* head_indices + limb_joint_indices
JointIndices ==
  { KEYPOINT_DICT.nose, KEYPOINT_DICT.left_eye, KEYPOINT_DICT.right_eye,
    KEYPOINT_DICT.left_ear, KEYPOINT_DICT.right_ear,
    KEYPOINT_DICT.left_elbow, KEYPOINT_DICT.right_elbow,
    KEYPOINT_DICT.left_wrist, KEYPOINT_DICT.right_wrist,
    KEYPOINT_DICT.left_knee, KEYPOINT_DICT.right_knee,
    KEYPOINT_DICT.left_ankle, KEYPOINT_DICT.right_ankle }

\* lines 28-107: what is drawn for one person
DrawPerson(person_kps, threshold, joint_radius, line_thickness) ==
  LET all_points == AllPoints(person_kps, threshold)
  IN  [ polygons |-> IF TorsoValid(person_kps, threshold)
                     THEN { TorsoPts(person_kps) }
                     ELSE {},
        lines |-> { [ kp1 |-> SKELETON_LINES[i][1],
                      kp2 |-> SKELETON_LINES[i][2],
                      pt1 |-> all_points[SKELETON_LINES[i][1]],
                      pt2 |-> all_points[SKELETON_LINES[i][2]],
                      thickness |-> line_thickness ] :
                      i \in DrawnLines(person_kps, threshold) },
        circles |-> { [ kp |-> idx,
                        center |-> IF idx \in DOMAIN all_points
                                   THEN all_points[idx]
                                   ELSE Point(person_kps[idx]),
                        radius |-> joint_radius,
                        cached |-> idx \in DOMAIN all_points ] :
                        idx \in { j \in JointIndices :
                                    person_kps[j].score > threshold } } ]

\* the blur kernel size passed on as it was given
OddKernel_AsGiven(kernel_size) == kernel_size

\* blur_kernel_size if blur_kernel_size % 2 != 0 else blur_kernel_size + 1
OddKernel(kernel_size) ==
  IF kernel_size % 2 # 0 THEN kernel_size ELSE kernel_size + 1

\* lines 109-121: cv2.dilate if dilation_iterations > 0, cv2.GaussianBlur if
\* blur_kernel_size > 1
PostProcess(mask, iterations, kernel_size) ==
  [mask EXCEPT
     !.dilate = IF iterations > 0 THEN Append(@, iterations) ELSE @,
     !.blur = IF kernel_size > 1
              THEN Append(@, OddKernel(kernel_size))
              ELSE @]

\* the drawing loop with the post-processing inside it, once per person
DrawLoop_PostProcessEach(mask, persons, threshold, r, iterations, kernel_size) ==
  [mask EXCEPT
     !.drawn = [i \in 1..Len(persons) |->
                  DrawPerson(persons[i], threshold,
                             JointRadius(r), JointRadius(r))],
     !.dilate = [i \in 1..(IF iterations > 0 THEN Len(persons) ELSE 0) |->
                   iterations],
     !.blur = [i \in 1..(IF kernel_size > 1 THEN Len(persons) ELSE 0) |->
                 OddKernel(kernel_size)]]

\* lines 27-107: for person_kps in persons_keypoints, every person drawn on
\* the one mask
DrawLoop(mask, persons, threshold, r, iterations, kernel_size) ==
  [mask EXCEPT
     !.drawn = [i \in 1..Len(persons) |->
                  DrawPerson(persons[i], threshold,
                             JointRadius(r), JointRadius(r))]]

\* create_mask(frame, persons_keypoints, confidence_threshold, radius,
\* dilation_iterations, blur_kernel_size)
create_mask(frame_shape, persons_keypoints, threshold, r, iterations, kernel_size) ==
  LET mask == Zeros(<< frame_shape[1], frame_shape[2] >>)
  IN  IF persons_keypoints = None
      THEN mask
      ELSE PostProcess(DrawLoop(mask, persons_keypoints[1], threshold, r,
                                iterations, kernel_size),
                       iterations, kernel_size)

\* the mask at the sample pixel: 0 on a mask of zeros
MaskValue(mask, px) == IF AllZero(mask) THEN 0 ELSE px.mask

\* the blend on a black background
Blend255_Black(colour, m) == colour * m

\* foreground + background in 255ths:
\* frame * (mask / 255.0) + 255.0 * (1.0 - mask / 255.0)
Blend255(colour, m) == colour * m + 255 * (255 - m)

\* the levels by which the float32 sum may fall short of the exact one once
\* it is cut to an integer: mask / 255.0 and 1.0 - mask / 255.0 are rounded
\* to float32, so where the exact sum is a whole number the float32 sum may
\* lie just below it (colour 0, mask 65: 189 for 190). For mask 0 and mask
\* 255 the two factors are exactly 0.0 and 1.0.
Shortfalls(colour, m) ==
  IF m \notin { 0, 255 } /\ (colour * m) % 255 = 0 THEN { 0, 1 } ELSE { 0 }

\* np.clip(foreground + background, 0, 255).astype(np.uint8): the float32
\* sum cut to an integer, short levels below the exact one
Composite(colour, m, short) ==
  LET blend == Blend255(colour, m)
      clipped == IF blend < 0 THEN 0
                 ELSE IF blend > 255 * 255 THEN 255 * 255
                 ELSE blend
  IN  IF short \in Shortfalls(colour, m) /\ clipped >= 255 * short
      THEN clipped \div 255 - short
      ELSE clipped \div 255

\* apply_mask(frame, mask): cv2.merge of three colour planes and the mask
\* (m is the one value of the mask at the sample pixel)
apply_mask(frame_shape, mask, px, short) ==
  [shape |-> << mask.shape[1], mask.shape[2], 4 >>, kind |-> "composited",
   pixel |-> CHOOSE pixel \in
               { [colour |-> Composite(px.colour, m, short), alpha |-> m] :
                   m \in { MaskValue(mask, px) } } : TRUE]

\* create_mask gated one hundredth below the threshold of detect_pose
MaskThreshold_Lower(params) == params.confidence_threshold - 1

\* the confidence_threshold argument of create_mask: the one of detect_pose
MaskThreshold(params) == params.confidence_threshold

\* process_frame without the resize to the target dimensions
process_frame_NoResize(frame_data, signature, input_size, params, px, fault, short) ==
  IF fault = "early"
  THEN \* the except clause reads params["target_h"] while params is unbound:
       \* the NameError leaves process_frame
       [raised |-> TRUE, idx |-> -1, frame |-> NoResult,
        persons_keypoints |-> None, mask |-> None]
  ELSE LET frame == frame_data[1]
           idx == frame_data[2]
       IN  IF fault = "body"
           THEN \* except Exception: blank of params["target_h"], params["target_w"]
                [raised |-> FALSE, idx |-> idx,
                 frame |-> Blank(params),
                 persons_keypoints |-> None, mask |-> None]
           ELSE IF frame.shape = << >>
           THEN \* "Skipping invalid frame"
                [raised |-> FALSE, idx |-> idx,
                 frame |-> Blank(params),
                 persons_keypoints |-> None, mask |-> None]
           ELSE LET frame_processed ==
                      frame.shape
                    \* lines 51-67 with the result of detect_pose
                    masked(persons_keypoints) ==
                      LET \* create_mask, or np.zeros when nobody was detected
                          mask ==
                            IF /\ persons_keypoints # None
                               /\ Len(persons_keypoints[1]) > 0
                            THEN create_mask(frame_processed,
                                             persons_keypoints,
                                             MaskThreshold(params),
                                             params.radius,
                                             params.dilation_iterations,
                                             params.blur_kernel_size)
                            ELSE Zeros(<< frame_processed[1],
                                          frame_processed[2] >>)
                      IN  [raised |-> FALSE, idx |-> idx,
                           frame |-> apply_mask(frame_processed, mask, px,
                                                short),
                           persons_keypoints |-> persons_keypoints,
                           mask |-> mask]
                IN  CHOOSE out \in
                      { masked(persons_keypoints) :
                          persons_keypoints \in
                            { detect_pose(frame_processed, signature,
                                          input_size,
                                          params.confidence_threshold) } } :
                      TRUE

\* process_frame(frame_data, ...) with the exception point as a parameter.
\* The outcome is what the future holds: raised, or the returned tuple.
process_frame(frame_data, signature, input_size, params, px, fault, short) ==
  IF fault = "early"
  THEN \* the except clause reads params["target_h"] while params is unbound:
       \* the NameError leaves process_frame
       [raised |-> TRUE, idx |-> -1, frame |-> NoResult,
        persons_keypoints |-> None, mask |-> None]
  ELSE LET frame == frame_data[1]
           idx == frame_data[2]
       IN  IF fault = "body"
           THEN \* except Exception: blank of params["target_h"], params["target_w"]
                [raised |-> FALSE, idx |-> idx,
                 frame |-> Blank(params),
                 persons_keypoints |-> None, mask |-> None]
           ELSE IF frame.shape = << >>
           THEN \* "Skipping invalid frame"
                [raised |-> FALSE, idx |-> idx,
                 frame |-> Blank(params),
                 persons_keypoints |-> None, mask |-> None]
           ELSE LET frame_processed ==
                      IF params.target_w # params.orig_w
                      THEN << params.target_h, params.target_w, frame.shape[3] >>
                      ELSE frame.shape
                    \* lines 51-67 with the result of detect_pose
                    masked(persons_keypoints) ==
                      LET \* create_mask, or np.zeros when nobody was detected
                          mask ==
                            IF /\ persons_keypoints # None
                               /\ Len(persons_keypoints[1]) > 0
                            THEN create_mask(frame_processed,
                                             persons_keypoints,
                                             MaskThreshold(params),
                                             params.radius,
                                             params.dilation_iterations,
                                             params.blur_kernel_size)
                            ELSE Zeros(<< frame_processed[1],
                                          frame_processed[2] >>)
                      IN  [raised |-> FALSE, idx |-> idx,
                           frame |-> apply_mask(frame_processed, mask, px,
                                                short),
                           persons_keypoints |-> persons_keypoints,
                           mask |-> mask]
                IN  CHOOSE out \in
                      { masked(persons_keypoints) :
                          persons_keypoints \in
                            { detect_pose(frame_processed, signature,
                                          input_size,
                                          params.confidence_threshold) } } :
                      TRUE

\* the params dict with the odd kernel size stored back into it
ParamsAfterFrame_OddStored(params) ==
  [params EXCEPT !.blur_kernel_size = OddKernel(@)]

\* the params dict of frame_data once process_frame has run: its entries are
\* only read, and the odd kernel size is bound to the local blur_kernel_size
\* of create_mask
ParamsAfterFrame(params) == params

\* the reader's threshold left at the default of its parameter
ReaderMaxQueueSize_Default(maxsize) == 32

\* the max_queue_size argument process_video passes to frame_reader:
\* frame_queue.maxsize
ReaderMaxQueueSize(maxsize) == maxsize

\* the queue-size test with > in place of >=
ReaderQueueFull_Strict(q, max_queue_size) == Len(q) > max_queue_size

\* while not processing_done.is_set(): if frame_queue.qsize() >= max_queue_size
ReaderQueueFull(q, max_queue_size) == Len(q) >= max_queue_size

\* range(max(5, params.get("num_threads", ...) * 2))
NumSentinels(params) == Max(5, params.num_threads * 2)

\* the loop test without the in-flight futures
LoopCondition_NoFutures(eof, f, r) == ~eof \/ DOMAIN r # {}

\* the loop test without the in-flight futures and the buffered results
LoopCondition_EofOnly(eof, f, r) == ~eof

\* while not end_of_frames_signal_received or futures or results
LoopCondition(eof, f, r) == ~eof \/ f # {} \/ DOMAIN r # {}

\* the count of the gets that counts the sentinel too, as main.py does
ReadCountAfter_Sentinel(n, frame_data) == n + 1

\* lines 288-292: frames_read_from_queue += 1 in the else branch of
\* `if frame_data is None`
ReadCountAfter(n, frame_data) == IF frame_data = None THEN n ELSE n + 1

\* the submit test without the limit on the futures
SubmitAllowed_NoLimit(eof, f, n) == ~eof

\* if not end_of_frames_signal_received and len(futures) < num_threads * 2
SubmitAllowed(eof, f, n) == ~eof /\ Cardinality(f) < n * 2

\* frame_to_write is not None and frame_to_write.shape == (target_h, target_w, 4)
ShapeMatches(frame_to_write, params) ==
  /\ frame_to_write # NoResult
  /\ frame_to_write.shape = << params.target_h, params.target_w, 4 >>

\* the cursor advanced once in the try block and once after it
NextCursor_Twice(n) == n + 2

\* next_frame_to_write += 1
NextCursor(n) == n + 1

\* frames_written += 1 placed before the write
WrittenAfter_Always(n, write_ok) == n + 1

\* frames_written += 1 follows the write, so a write that raises is not counted
WrittenAfter(n, write_ok) == IF write_ok THEN n + 1 ELSE n

\* the except branch storing None in place of a blank frame
CollectResult_NoneOnError(out, params) ==
  IF out.raised THEN NoResult ELSE out.frame

\* _, result_frame = future.result(); results[frame_idx] = result_frame
\* except Exception: results[frame_idx] = np.zeros((target_h, target_w, 4))
CollectResult(out, params) ==
  IF out.raised THEN Blank(params) ELSE out.frame

\* a reader that never tests the abort flag
ReaderStops_Never(done) == FALSE

\* while not processing_done.is_set()
ReaderStops(done) == done

\* a reader that forgets frame_idx += 1
NextFrameIdx_Stuck(i) == i

\* frame_idx += 1 after a successful put
NextFrameIdx(i) == i + 1

\* reader_thread.is_alive()
ReaderAlive(pc) == pc \notin { "unstarted", "exited" }

\* the fallback that looks at the queue only
ReaderDone_QueueOnly(alive, q) == q = << >>

\* if not reader_thread.is_alive() and frame_queue.empty()
ReaderDone(alive, q) == ~alive /\ q = << >>

Running(t) == { k \in DOMAIN t : t[k].st = "running" }
Pending(t) == { k \in DOMAIN t : t[k].st = "pending" }
Finished(t) == { k \in DOMAIN t : t[k].st = "done" }

\* a cancel that also removes the work items a worker is running
CancelFutures_All(t, f) ==
  [k \in { j \in DOMAIN t : ~(j \in f /\ t[j].st # "done") } |-> t[k]]

\* for f in futures: f.cancel()  -- only a pending work item is cancelled
CancelFutures(t, f) ==
  [k \in { j \in DOMAIN t : ~(j \in f /\ t[j].st = "pending") } |-> t[k]]

\* ------------------------------------------------------- the model's outputs
\* one row of output_data: a pose and the score of its bounding box
Person(keypoints, score) == [keypoints |-> keypoints, score |-> score]

\* the pose that has every keypoint at the normalised position (y, x)
Reported(y, x, scores) ==
  [j \in Keypoints |-> [y |-> y, x |-> x, score |-> scores[j]]]

\* the pose of a model that finds keypoint j exactly where the source pixel
\* pixel[j] = << y0, x0 >> lies on its input canvas
Located(h_proc, w_proc, input_size, pixel, scores) ==
  LET scale == Scale(h_proc, w_proc, input_size)
      new_h == Resized(h_proc, scale)
      new_w == Resized(w_proc, scale)
      pad_y == Padding(input_size, new_h)
      pad_x == Padding(input_size, new_w)
  IN  [j \in Keypoints |->
         [y |-> Letterbox(pixel[j][1], h_proc, new_h, pad_y, input_size),
          x |-> Letterbox(pixel[j][2], w_proc, new_w, pad_x, input_size),
          score |-> scores[j]]]

\* output_data of a single-pose model (one row) and of a multi-pose model:
\* the pose, and a second row whose box score does not exceed the threshold
Outputs(keypoints, threshold) ==
  { << Person(keypoints, threshold + 1) >>,
    << Person(keypoints, threshold + 1), Person(keypoints, threshold) >> }

\* confidences of the 17 keypoints around the threshold t: all above it; all
\* but one, which is equal to it or below; only the two ends of one skeleton
\* line above; only one keypoint above; none above
AllAbove(t) == [j \in Keypoints |-> t + 1]

ScorePatterns(t) ==
  { AllAbove(t) }
    \cup { [AllAbove(t) EXCEPT ![j] = v] : j \in Keypoints, v \in { t, t - 1 } }
    \cup { [j \in Keypoints |->
              IF j \in { SKELETON_LINES[i][1], SKELETON_LINES[i][2] }
              THEN t + 1 ELSE t - 1] : i \in DOMAIN SKELETON_LINES }
    \cup { [j \in Keypoints |-> IF j = k THEN t + 1 ELSE t] : k \in Keypoints }
    \cup { [j \in Keypoints |-> t] }

\* output_data of a multi-pose model that reports nobody, a pose whose box
\* score does not exceed the threshold, one pose and the same pose twice
Crowds(keypoints, threshold) ==
  { << >>,
    << Person(keypoints, threshold), Person(keypoints, threshold) >>,
    << Person(keypoints, threshold + 1), Person(keypoints, threshold) >>,
    << Person(keypoints, threshold + 1), Person(keypoints, threshold + 1) >> }

\* the arguments of the pipeline runs: a model that finds nobody (its
\* output_data has no row)
PipelineCall ==
  /\ model_input_size = ModelInputSize
  /\ confidence_threshold = 30
  /\ radius = 5
  /\ dilation_iterations = 10
  /\ blur_kernel_size = 21
  /\ sample = [colour |-> 0, mask |-> 255]
  /\ movenet_signature = Some(<< >>)

\* --------------------------------------------------------------------- Init
\* the state at the call of process_video
Idle ==
  /\ cap = "closed"
  /\ cap_pos = 0
  /\ processing_params = NoParams
  /\ frame_queue = << >>
  /\ processing_done = FALSE
  /\ r_pc = "unstarted"
  /\ frame_idx = 0
  /\ frame_read_count = 0
  /\ r_frame = None
  /\ c_pc = "start"
  /\ end_of_frames_signal_received = FALSE
  /\ futures = {}
  /\ results = EmptyMap
  /\ next_frame_to_write = 0
  /\ frames_processed = 0
  /\ frames_read_from_queue = 0
  /\ frames_written = 0
  /\ return_code = None
  /\ retval = None
  /\ tasks = EmptyMap
  /\ ffmpeg_process = "none"
  /\ pipe_broken = FALSE
  /\ sink = << >>
  /\ timeout_counter = 0

\* no other invocation of process_video runs beside the one
OneRun ==
  /\ queues = EmptyMap
  /\ events = EmptyMap
  /\ runs = EmptyMap

Init ==
  /\ num_threads \in 1..MaxThreads
  /\ processing_width \in ProcessingWidths
  /\ video \in { Source(f, r, o, d) :
                   f \in { 0, NumFrames }, r \in FrameRates,
                   o \in BOOLEAN, d \in SourceDims }
  /\ PipelineCall
  /\ Idle
  /\ OneRun

\* the runs explored under fair scheduling: a single worker or the largest
\* number of workers, processing_width left at its default None
InitFair ==
  /\ num_threads \in { 1, MaxThreads }
  /\ processing_width = 0
  /\ video \in { Source(NumFrames, 30, TRUE, d) : d \in SourceDims }
  /\ PipelineCall
  /\ Idle
  /\ OneRun

\* a single worker and a source whose decoding may end the reader thread
InitReaderFault ==
  /\ num_threads = 1
  /\ processing_width = 0
  /\ video \in { FailingSource(NumFrames, d) : d \in SourceDims }
  /\ PipelineCall
  /\ Idle
  /\ OneRun

\* one-frame sources, one of them so flat that the resize to the model's
\* canvas fails, processed with or without a model signature and with or
\* without its input size; a loaded model finds nobody, one person or two
InitDetector ==
  /\ num_threads = 1
  /\ processing_width = 0
  /\ model_input_size \in { 0, ModelInputSize }
  /\ confidence_threshold = 30
  /\ radius = 5
  /\ dilation_iterations = 10
  /\ blur_kernel_size = 21
  /\ sample = [colour |-> 0, mask |-> 255]
  /\ video \in { Source(1, 30, TRUE, d) : d \in SourceDims \cup { << 5, 1 >> } }
  /\ movenet_signature \in
       { None } \cup
       { Some(output_data) : output_data \in
           Crowds(Located(video.height, video.width, ModelInputSize,
                          [j \in Keypoints |->
                             << j % video.height, j % video.width >>],
                          AllAbove(30)), 30) }
  /\ Idle
  /\ OneRun

\* a source one frame longer than the queue of a single worker is large,
\* processing_width left at its default None
InitBackpressure ==
  /\ num_threads \in 1..MaxThreads
  /\ processing_width = 0
  /\ video \in { Source(QueueMaxsize(1) + 1, 30, TRUE, d) :
                   d \in SourceDims }
  /\ PipelineCall
  /\ Idle
  /\ OneRun

\* a single worker and a source two frames longer than its queue is large,
\* processing_width left at its default None
InitSentinel ==
  /\ num_threads = 1
  /\ processing_width = 0
  /\ video \in { Source(QueueMaxsize(1) + 2, 30, TRUE, d) :
                   d \in SourceDims }
  /\ PipelineCall
  /\ Idle
  /\ OneRun

\* the calls with an invalid configuration among them: no worker, a negative
\* processing width
InitConfig ==
  /\ num_threads \in { 0, 1 }
  /\ processing_width \in { -2, 0 }
  /\ video \in { Source(NumFrames, 30, TRUE, d) : d \in SourceDims }
  /\ PipelineCall
  /\ Idle
  /\ OneRun

\* one-frame sources of every width and height up to MaxDim, with every
\* processing width from below 0 to above the source width (0 is None)
InitGeometry ==
  /\ num_threads = 1
  /\ processing_width \in -1..(MaxDim + 1)
  /\ video \in { Source(1, 30, TRUE, << w, h >>) : w, h \in 1..MaxDim }
  /\ PipelineCall
  /\ Idle
  /\ OneRun

\* one-frame sources of every width and height up to MaxDim, processed at
\* source resolution; the model reports every keypoint at one pixel of the
\* frame (at the last pixel also with a nose of no confidence), or at a
\* position off its canvas, as one pose or as several
InitPose ==
  /\ num_threads = 1
  /\ processing_width = 0
  /\ model_input_size = ModelInputSize
  /\ confidence_threshold = 30
  /\ radius = 5
  /\ dilation_iterations = 10
  /\ blur_kernel_size = 21
  /\ sample = [colour |-> 0, mask |-> 255]
  /\ video \in { Source(1, 30, TRUE, << w, h >>) : w, h \in 1..MaxDim }
  /\ movenet_signature \in
       { Some(output_data) : output_data \in UNION (
         { Outputs(Located(video.height, video.width, model_input_size,
                           [j \in Keypoints |-> << y0, x0 >>],
                           AllAbove(30)), 30) :
             y0 \in 0..(video.height - 1), x0 \in 0..(video.width - 1) }
         \cup
         { Outputs(Located(video.height, video.width, model_input_size,
                           [j \in Keypoints |->
                              << video.height - 1, video.width - 1 >>],
                           [AllAbove(30) EXCEPT ![KEYPOINT_DICT.nose] = 30]),
                   30) }
         \cup
         { Outputs(Reported(y, x, AllAbove(30)), 30) :
             y, x \in { << -1, 2 >>, << 3, 2 >> } } ) }
  /\ Idle
  /\ OneRun

\* one-frame sources processed at source resolution; the model finds
\* keypoint j at the pixel (j mod height, j mod width), with every pattern of
\* confidences, and every radius up to MaxRadius is drawn with
InitMask ==
  /\ num_threads = 1
  /\ processing_width = 0
  /\ model_input_size = ModelInputSize
  /\ confidence_threshold = 30
  /\ dilation_iterations = 10
  /\ blur_kernel_size = 21
  /\ sample = [colour |-> 0, mask |-> 255]
  /\ video \in { Source(1, 30, TRUE, d) : d \in SourceDims }
  /\ \E scores \in ScorePatterns(30) :
       /\ movenet_signature \in
            { Some(output_data) : output_data \in
                Outputs(Located(video.height, video.width, model_input_size,
                                [j \in Keypoints |->
                                   << j % video.height, j % video.width >>],
                                scores), 30) }
       /\ radius \in IF scores = AllAbove(30) /\ Len(movenet_signature[1]) = 1
                     THEN 0..MaxRadius
                     ELSE { 5 }
  /\ Idle
  /\ OneRun

\* one-frame sources processed at source resolution, one of them so flat that
\* the resize to the model's canvas fails; the model finds nobody, one person
\* or two, and every dilation_iterations from -1 to MaxIterations and every
\* blur_kernel_size from -1 to MaxKernel is post-processed with
InitPost ==
  /\ num_threads = 1
  /\ processing_width = 0
  /\ model_input_size = ModelInputSize
  /\ confidence_threshold = 30
  /\ radius = 5
  /\ dilation_iterations \in -1..MaxIterations
  /\ blur_kernel_size \in -1..MaxKernel
  /\ sample = [colour |-> 0, mask |-> 255]
  /\ video \in { Source(1, 30, TRUE, d) : d \in SourceDims \cup { << 5, 1 >> } }
  /\ movenet_signature \in
       { Some(output_data) : output_data \in
           Crowds(Located(video.height, video.width, model_input_size,
                          [j \in Keypoints |->
                             << j % video.height, j % video.width >>],
                          AllAbove(30)), 30) }
  /\ Idle
  /\ OneRun

\* one-frame sources processed at source resolution in which the model finds
\* one person; the sample pixel has one of SampleColours and the mask one of
\* SampleMasks there. With the mask at 255 the model may also find nobody.
InitComposite ==
  /\ num_threads = 1
  /\ processing_width = 0
  /\ model_input_size = ModelInputSize
  /\ confidence_threshold = 30
  /\ radius = 5
  /\ dilation_iterations = 10
  /\ blur_kernel_size = 21
  /\ sample \in [colour : SampleColours, mask : SampleMasks]
  /\ video \in { Source(1, 30, TRUE, d) : d \in SourceDims }
  /\ movenet_signature \in
       { Some(output_data) : output_data \in
           { << Person(Located(video.height, video.width, model_input_size,
                               [j \in Keypoints |->
                                  << j % video.height, j % video.width >>],
                               AllAbove(30)), 31) >> }
             \cup IF sample.mask = 255 THEN { << >> } ELSE { } }
  /\ Idle
  /\ OneRun

\* ------------------------------------------------------------ process_video
\* lines 143-272: open the source, compute the geometry, start ffmpeg, start
\* the reader thread.
Start ==
  /\ c_pc = "start"
  /\ \E popen_ok \in BOOLEAN :
       IF ~video.readable
       THEN \* raise FileNotFoundError
            /\ c_pc' = "raised"
            /\ UNCHANGED << cap, processing_params, ffmpeg_process, r_pc >>
       ELSE IF InvalidProperties(video.frames, video.fps)
       THEN \* cap.release(); raise ValueError
            /\ c_pc' = "raised"
            /\ cap' = "released"
            /\ UNCHANGED << processing_params, ffmpeg_process, r_pc >>
       ELSE IF ~popen_ok
       THEN \* cap.release(); raise RuntimeError
            /\ c_pc' = "raised"
            /\ cap' = "released"
            /\ processing_params' =
                 ProcessingParams(video.width, video.height,
                                  processing_width, num_threads,
                                  confidence_threshold, radius,
                                  dilation_iterations, blur_kernel_size)
            /\ UNCHANGED << ffmpeg_process, r_pc >>
       ELSE /\ c_pc' = IF ExecutorRejects(num_threads)
                       THEN \* line 275 raises ValueError, after the Popen
                            \* and after reader_thread.start()
                            "raised"
                       ELSE "loop"
            /\ cap' = "open"
            /\ processing_params' =
                 ProcessingParams(video.width, video.height,
                                  processing_width, num_threads,
                                  confidence_threshold, radius,
                                  dilation_iterations, blur_kernel_size)
            /\ ffmpeg_process' = "running"
            /\ r_pc' = "loop"
  /\ UNCHANGED << num_threads, processing_width, movenet_signature,
                  model_input_size, radius, confidence_threshold,
                  dilation_iterations, blur_kernel_size, sample, video,
                  queues, events, runs, timeout_counter,
                  cap_pos, frame_queue,
                  processing_done, frame_idx, frame_read_count, r_frame,
                  end_of_frames_signal_received, futures, results,
                  next_frame_to_write, frames_processed,
                  frames_read_from_queue, frames_written, return_code, retval,
                  tasks, pipe_broken, sink >>

\* lines 282-309: loop test and step 1, submit one task from the queue
CtrlSubmit ==
  /\ c_pc = "loop"
  /\ LoopCondition(end_of_frames_signal_received, futures, results)
  /\ c_pc' = "collect"
  /\ IF SubmitAllowed(end_of_frames_signal_received, futures, num_threads)
     THEN IF frame_queue # << >>
          THEN LET frame_data == QueueGet(frame_queue).item
               IN  /\ frame_queue' = QueueGet(frame_queue).rest
                   /\ frames_read_from_queue' =
                        ReadCountAfter(frames_read_from_queue, frame_data)
                   /\ IF frame_data = None
                      THEN /\ end_of_frames_signal_received' = TRUE
                           /\ UNCHANGED << futures, tasks >>
                      ELSE /\ futures' = futures \cup { frame_data[2] }
                           /\ tasks' = (frame_data[2] :>
                                          [st |-> "pending",
                                           frame_data |-> frame_data,
                                           out |-> None]) @@ tasks
                           /\ UNCHANGED end_of_frames_signal_received
          ELSE \* queue.Empty after the timeout
               /\ end_of_frames_signal_received' =
                    (end_of_frames_signal_received
                       \/ ReaderDone(ReaderAlive(r_pc), frame_queue))
               /\ UNCHANGED << frame_queue, frames_read_from_queue, futures,
                               tasks >>
     ELSE UNCHANGED << frame_queue, end_of_frames_signal_received,
                       frames_read_from_queue, futures, tasks >>
  /\ UNCHANGED << num_threads, processing_width, movenet_signature,
                  model_input_size, radius, confidence_threshold,
                  dilation_iterations, blur_kernel_size, sample, video,
                  queues, events, runs, timeout_counter,
                  cap, cap_pos,
                  processing_params, processing_done, r_pc, frame_idx,
                  frame_read_count, r_frame, results, next_frame_to_write,
                  frames_processed, frames_written, return_code, retval,
                  ffmpeg_process, pipe_broken, sink >>

\* line 282: the loop test fails
CtrlExitLoop ==
  /\ c_pc = "loop"
  /\ ~LoopCondition(end_of_frames_signal_received, futures, results)
  /\ c_pc' = "shutdown"
  /\ UNCHANGED << num_threads, processing_width, movenet_signature,
                  model_input_size, radius, confidence_threshold,
                  dilation_iterations, blur_kernel_size, sample, video,
                  queues, events, runs, timeout_counter,
                  cap, cap_pos,
                  processing_params, frame_queue, processing_done, r_pc,
                  frame_idx, frame_read_count, r_frame,
                  end_of_frames_signal_received, futures, results,
                  next_frame_to_write, frames_processed,
                  frames_read_from_queue, frames_written, return_code, retval,
                  tasks, ffmpeg_process, pipe_broken, sink >>

\* lines 312-325: the reassembly buffer after the completed futures are
\* collected
Collected(f, t, r, params) ==
  [k \in f \cap Finished(t) |-> CollectResult(t[k].out, params)] @@ r

\* lines 329-363: the write loop. r is the reassembly buffer, n the cursor,
\* w frames_written, sk the sink; fail is the index whose write raises
\* BrokenPipeError / IOError (-1: no write raises)
RECURSIVE WriteLoop(_, _, _, _, _, _)
WriteLoop(r, n, w, sk, fail, params) ==
  IF n \notin DOMAIN r
  THEN [results |-> r, next |-> n, written |-> w, sink |-> sk,
        failed |-> FALSE]
  ELSE IF ShapeMatches(r[n], params)
       THEN IF n = fail
            THEN \* the except clause; the rest of it is CtrlDrain
                 [results |-> Pop(r, n), next |-> n,
                  written |-> WrittenAfter(w, FALSE), sink |-> sk,
                  failed |-> TRUE]
            ELSE WriteLoop(Pop(r, n), NextCursor(n), WrittenAfter(w, TRUE),
                           Append(sk, n), fail, params)
       ELSE \* "Skipping write for invalid frame"
            WriteLoop(Pop(r, n), NextCursor(n), w, sk, fail, params)

\* lines 311-381: steps 2 and 3 of one iteration, collect the completed
\* futures and write the frames that are next in order, then the tests that
\* end the iteration
CtrlCollect ==
  /\ c_pc = "collect"
  /\ LET done_futures == futures \cap Finished(tasks)
         collected == Collected(futures, tasks, results, processing_params)
     IN  /\ futures' = futures \ done_futures
         /\ frames_processed' = frames_processed + Cardinality(done_futures)
         /\ tasks' = [k \in (DOMAIN tasks) \ done_futures |-> tasks[k]]
         /\ \E wl \in { WriteLoop(collected, next_frame_to_write,
                                   frames_written, sink, fail,
                                   processing_params) :
                           fail \in { -1 } \cup DOMAIN collected } :
              LET frames_written_this_batch == Len(wl.sink) - Len(sink)
              IN  /\ results' = wl.results
                  /\ next_frame_to_write' = wl.next
                  /\ frames_written' = wl.written
                  /\ sink' = wl.sink
                  /\ IF wl.failed
                     THEN \* processing_done.set()
                          /\ processing_done' = TRUE
                          /\ pipe_broken' = TRUE
                          /\ c_pc' = "drain"
                     ELSE /\ UNCHANGED << processing_done, pipe_broken >>
                          /\ IF /\ done_futures = {}
                                /\ frames_written_this_batch = 0
                                /\ end_of_frames_signal_received
                                /\ futures' = {}
                                /\ DOMAIN wl.results = {}
                             THEN c_pc' = "shutdown"
                             ELSE c_pc' = "loop"
  /\ UNCHANGED << num_threads, processing_width, movenet_signature,
                  model_input_size, radius, confidence_threshold,
                  dilation_iterations, blur_kernel_size, sample, video,
                  queues, events, runs, timeout_counter,
                  cap, cap_pos,
                  processing_params, frame_queue, r_pc, frame_idx,
                  frame_read_count, r_frame, end_of_frames_signal_received,
                  frames_read_from_queue, return_code, retval, ffmpeg_process >>

\* the drain test that goes on to the get whatever the queue holds
DrainTest_Always(q) == TRUE

\* line 357: while not frame_queue.empty()
DrainTest(q) == q # << >>

\* lines 356-362 and 369-371: the test of the drain loop; once the queue is
\* found empty, cancel the futures and leave
CtrlDrain ==
  /\ c_pc = "drain"
  /\ IF DrainTest(frame_queue)
     THEN /\ c_pc' = "drain_get"
          /\ UNCHANGED << tasks, futures, results >>
     ELSE /\ tasks' = CancelFutures(tasks, futures)
          /\ futures' = {}
          /\ results' = EmptyMap
          /\ c_pc' = "shutdown"
  /\ UNCHANGED << num_threads, processing_width, movenet_signature,
                  model_input_size, radius, confidence_threshold,
                  dilation_iterations, blur_kernel_size, sample, video,
                  queues, events, runs, timeout_counter,
                  cap, cap_pos,
                  processing_params, frame_queue, processing_done, r_pc,
                  frame_idx,
                  frame_read_count, r_frame, end_of_frames_signal_received,
                  next_frame_to_write, frames_processed,
                  frames_read_from_queue, frames_written, return_code, retval,
                  ffmpeg_process, pipe_broken, sink >>

\* line 358: frame_queue.get(), a blocking get without timeout: it waits
\* while the queue is empty
CtrlDrainGet ==
  /\ c_pc = "drain_get"
  /\ frame_queue # << >>
  /\ frame_queue' = Tail(frame_queue)
  /\ c_pc' = "drain"
  /\ UNCHANGED << num_threads, processing_width, movenet_signature,
                  model_input_size, radius, confidence_threshold,
                  dilation_iterations, blur_kernel_size, sample, video,
                  queues, events, runs, timeout_counter,
                  cap, cap_pos,
                  processing_params, processing_done, r_pc, frame_idx,
                  frame_read_count, r_frame, end_of_frames_signal_received,
                  futures, results, tasks,
                  next_frame_to_write, frames_processed,
                  frames_read_from_queue, frames_written, return_code, retval,
                  ffmpeg_process, pipe_broken, sink >>

\* leaving the with block: executor.shutdown(wait=True)
CtrlShutdown ==
  /\ c_pc = "shutdown"
  /\ Pending(tasks) = {}
  /\ Running(tasks) = {}
  /\ tasks' = EmptyMap
  /\ c_pc' = "cleanup"
  /\ UNCHANGED << num_threads, processing_width, movenet_signature,
                  model_input_size, radius, confidence_threshold,
                  dilation_iterations, blur_kernel_size, sample, video,
                  queues, events, runs, timeout_counter,
                  cap, cap_pos,
                  processing_params, frame_queue, processing_done, r_pc,
                  frame_idx, frame_read_count, r_frame,
                  end_of_frames_signal_received, futures, results,
                  next_frame_to_write, frames_processed,
                  frames_read_from_queue, frames_written, return_code, retval,
                  ffmpeg_process, pipe_broken, sink >>

\* line 387: processing_done.set()
CtrlCleanup ==
  /\ c_pc = "cleanup"
  /\ processing_done' = TRUE
  /\ c_pc' = "join"
  /\ UNCHANGED << num_threads, processing_width, movenet_signature,
                  model_input_size, radius, confidence_threshold,
                  dilation_iterations, blur_kernel_size, sample, video,
                  queues, events, runs, timeout_counter,
                  cap, cap_pos,
                  processing_params, frame_queue, r_pc, frame_idx,
                  frame_read_count, r_frame, end_of_frames_signal_received,
                  futures, results, next_frame_to_write, frames_processed,
                  frames_read_from_queue, frames_written, return_code, retval,
                  tasks, ffmpeg_process, pipe_broken, sink >>

\* lines 389-393: reader_thread.join(timeout=5.0) returns when the reader has
\* exited or when the timeout expires
CtrlJoin ==
  /\ c_pc = "join"
  /\ c_pc' = "communicate"
  /\ UNCHANGED << num_threads, processing_width, movenet_signature,
                  model_input_size, radius, confidence_threshold,
                  dilation_iterations, blur_kernel_size, sample, video,
                  queues, events, runs, timeout_counter,
                  cap, cap_pos,
                  processing_params, frame_queue, processing_done, r_pc,
                  frame_idx, frame_read_count, r_frame,
                  end_of_frames_signal_received, futures, results,
                  next_frame_to_write, frames_processed,
                  frames_read_from_queue, frames_written, return_code, retval,
                  tasks, ffmpeg_process, pipe_broken, sink >>

\* lines 403-425: collect the exit status of ffmpeg
\*   "exit"     communicate() returns, the process has exited with code rc
\*   "timeout"  communicate(timeout=30) raises TimeoutExpired
\*   "error"    communicate() raises another exception; then wait(timeout=1)
\*              returns rc, or raises TimeoutExpired, or raises otherwise
CtrlCommunicate ==
  /\ c_pc = "communicate"
  /\ \E outcome \in { "exit", "timeout", "error" },
        wait_outcome \in { "exit", "timeout", "error" },
        rc \in { 0, 1 } :
       IF outcome = "exit"
       THEN /\ ffmpeg_process' = "exited"
            /\ return_code' = << rc >>
       ELSE IF outcome = "timeout"
       THEN \* ffmpeg_process.kill(); communicate(); return_code = -1
            /\ ffmpeg_process' = "killed"
            /\ return_code' = << -1 >>
       ELSE IF wait_outcome = "exit"
       THEN /\ ffmpeg_process' = "exited"
            /\ return_code' = << rc >>
       ELSE \* the process is left as it is
            /\ return_code' = << -1 >>
            /\ UNCHANGED ffmpeg_process
  /\ c_pc' = "report"
  /\ UNCHANGED << num_threads, processing_width, movenet_signature,
                  model_input_size, radius, confidence_threshold,
                  dilation_iterations, blur_kernel_size, sample, video,
                  queues, events, runs, timeout_counter,
                  cap, cap_pos,
                  processing_params, frame_queue, processing_done, r_pc,
                  frame_idx, frame_read_count, r_frame,
                  end_of_frames_signal_received, futures, results,
                  next_frame_to_write, frames_processed,
                  frames_read_from_queue, frames_written, retval, tasks,
                  pipe_broken, sink >>

\* lines 427-466: cap.release(), the statistics, return frames_written
CtrlReturn ==
  /\ c_pc = "report"
  /\ cap' = "released"
  /\ retval' = << frames_written >>
  /\ c_pc' = "done"
  /\ UNCHANGED << num_threads, processing_width, movenet_signature,
                  model_input_size, radius, confidence_threshold,
                  dilation_iterations, blur_kernel_size, sample, video,
                  queues, events, runs, timeout_counter,
                  cap_pos,
                  processing_params, frame_queue, processing_done, r_pc,
                  frame_idx, frame_read_count, r_frame,
                  end_of_frames_signal_received, futures, results,
                  next_frame_to_write, frames_processed,
                  frames_read_from_queue, frames_written, return_code, tasks,
                  ffmpeg_process, pipe_broken, sink >>

\* ------------------------------------------------------------- frame_reader
\* lines 94-97: the loop test and the queue-size test
ReaderCheck ==
  /\ r_pc = "loop"
  /\ IF ReaderStops(processing_done)
     THEN r_pc' = "sentinels"
     ELSE IF ReaderQueueFull(frame_queue,
                             ReaderMaxQueueSize(QueueMaxsize(num_threads)))
     THEN \* time.sleep(0.01); continue
          UNCHANGED r_pc
     ELSE r_pc' = "read"
  /\ UNCHANGED << num_threads, processing_width, movenet_signature,
                  model_input_size, radius, confidence_threshold,
                  dilation_iterations, blur_kernel_size, sample, video,
                  queues, events, runs, timeout_counter,
                  cap, cap_pos,
                  processing_params, frame_queue, processing_done, frame_idx,
                  frame_read_count, r_frame, c_pc,
                  end_of_frames_signal_received, futures, results,
                  next_frame_to_write, frames_processed,
                  frames_read_from_queue, frames_written, return_code, retval,
                  tasks, ffmpeg_process, pipe_broken, sink >>

\* lines 99-100: ret, frame = cap.read(). A decoded frame has the dimensions
\* the capture reports and 3 channels, or is not an array
ReaderRead ==
  /\ r_pc = "read"
  /\ IF cap = "open" /\ cap_pos < video.frames
     THEN \/ /\ \E valid \in BOOLEAN :
                  r_frame' = [pos |-> cap_pos,
                              shape |-> IF valid
                                        THEN << video.height, video.width,
                                                3 >>
                                        ELSE << >>]
             /\ cap_pos' = cap_pos + 1
             /\ r_pc' = "put"
          \/ \* cap.read() raises: the thread ends without a sentinel
             /\ video.fails
             /\ r_pc' = "exited"
             /\ UNCHANGED << r_frame, cap_pos >>
     ELSE /\ r_pc' = "eof"
          /\ UNCHANGED << r_frame, cap_pos >>
  /\ UNCHANGED << num_threads, processing_width, movenet_signature,
                  model_input_size, radius, confidence_threshold,
                  dilation_iterations, blur_kernel_size, sample, video,
                  queues, events, runs, timeout_counter,
                  cap,
                  processing_params, frame_queue, processing_done, frame_idx,
                  frame_read_count, c_pc, end_of_frames_signal_received,
                  futures, results, next_frame_to_write, frames_processed,
                  frames_read_from_queue, frames_written, return_code, retval,
                  tasks, ffmpeg_process, pipe_broken, sink >>

\* lines 101-103: frame_queue.put(None), a blocking put without timeout
ReaderPutEof ==
  /\ r_pc = "eof"
  /\ QueueHasRoom(frame_queue, QueueMaxsize(num_threads))
  /\ frame_queue' = Append(frame_queue, None)
  /\ r_pc' = "sentinels"
  /\ UNCHANGED << num_threads, processing_width, movenet_signature,
                  model_input_size, radius, confidence_threshold,
                  dilation_iterations, blur_kernel_size, sample, video,
                  queues, events, runs, timeout_counter,
                  cap, cap_pos,
                  processing_params, processing_done, frame_idx,
                  frame_read_count, r_frame, c_pc,
                  end_of_frames_signal_received, futures, results,
                  next_frame_to_write, frames_processed,
                  frames_read_from_queue, frames_written, return_code, retval,
                  tasks, ffmpeg_process, pipe_broken, sink >>

\* lines 105-115: frame_queue.put((frame, frame_idx, params), timeout=1.0);
\* on queue.Full the frame is dropped and frame_idx is not advanced
ReaderPut ==
  /\ r_pc = "put"
  /\ IF QueueHasRoom(frame_queue, QueueMaxsize(num_threads))
     THEN /\ frame_queue' = Append(frame_queue, << r_frame, frame_idx >>)
          /\ frame_idx' = NextFrameIdx(frame_idx)
          /\ frame_read_count' = frame_read_count + 1
     ELSE UNCHANGED << frame_queue, frame_idx, frame_read_count >>
  /\ r_frame' = None
  /\ r_pc' = "loop"
  /\ UNCHANGED << num_threads, processing_width, movenet_signature,
                  model_input_size, radius, confidence_threshold,
                  dilation_iterations, blur_kernel_size, sample, video,
                  queues, events, runs, timeout_counter,
                  cap, cap_pos,
                  processing_params, processing_done, c_pc,
                  end_of_frames_signal_received, futures, results,
                  next_frame_to_write, frames_processed,
                  frames_read_from_queue, frames_written, return_code, retval,
                  tasks, ffmpeg_process, pipe_broken, sink >>

\* lines 119-123: n times frame_queue.put(None, block=False), a put on a full
\* queue is given up
RECURSIVE PutSentinels(_, _, _)
PutSentinels(q, n, maxsize) ==
  IF n = 0
  THEN q
  ELSE PutSentinels(IF QueueHasRoom(q, maxsize) THEN Append(q, None) ELSE q,
                    n - 1, maxsize)

\* lines 117-125: the sentinel puts, none of which blocks, then the thread
\* exits
ReaderSentinel ==
  /\ r_pc = "sentinels"
  /\ frame_queue' = PutSentinels(frame_queue, NumSentinels(processing_params),
                                 QueueMaxsize(num_threads))
  /\ r_pc' = "exited"
  /\ UNCHANGED << num_threads, processing_width, movenet_signature,
                  model_input_size, radius, confidence_threshold,
                  dilation_iterations, blur_kernel_size, sample, video,
                  queues, events, runs, timeout_counter,
                  cap, cap_pos,
                  processing_params, processing_done, frame_idx,
                  frame_read_count, r_frame, c_pc,
                  end_of_frames_signal_received, futures, results,
                  next_frame_to_write, frames_processed,
                  frames_read_from_queue, frames_written, return_code, retval,
                  tasks, ffmpeg_process, pipe_broken, sink >>

\* ------------------------------------------------------ ThreadPoolExecutor
\* a worker thread takes the oldest pending work item
WorkerStart ==
  /\ Pending(tasks) # {}
  /\ Cardinality(Running(tasks)) < num_threads
  /\ LET k == CHOOSE j \in Pending(tasks) : \A i \in Pending(tasks) : j <= i
     IN  tasks' = [tasks EXCEPT ![k].st = "running"]
  /\ UNCHANGED << num_threads, processing_width, movenet_signature,
                  model_input_size, radius, confidence_threshold,
                  dilation_iterations, blur_kernel_size, sample, video,
                  queues, events, runs, timeout_counter,
                  cap, cap_pos,
                  processing_params, frame_queue, processing_done, r_pc,
                  frame_idx, frame_read_count, r_frame, c_pc,
                  end_of_frames_signal_received, futures, results,
                  next_frame_to_write, frames_processed,
                  frames_read_from_queue, frames_written, return_code, retval,
                  ffmpeg_process, pipe_broken, sink >>

\* the work item of frame k runs process_frame to its end
WorkerFinish(k) ==
  /\ k \in Running(tasks)
  /\ \E out \in { process_frame(tasks[k].frame_data, movenet_signature,
                                 model_input_size, processing_params,
                                 sample, fault, short) :
                     fault \in Faults,
                     short \in Shortfalls(sample.colour, sample.mask) } :
       tasks' = [tasks EXCEPT ![k] =
                   [st |-> "done", frame_data |-> None, out |-> out]]
  /\ processing_params' = ParamsAfterFrame(processing_params)
  /\ UNCHANGED << num_threads, processing_width, movenet_signature,
                  model_input_size, radius, confidence_threshold,
                  dilation_iterations, blur_kernel_size, sample, video,
                  queues, events, runs, timeout_counter,
                  cap, cap_pos,
                  frame_queue, processing_done, r_pc,
                  frame_idx, frame_read_count, r_frame, c_pc,
                  end_of_frames_signal_received, futures, results,
                  next_frame_to_write, frames_processed,
                  frames_read_from_queue, frames_written, return_code, retval,
                  ffmpeg_process, pipe_broken, sink >>

\* ---------------------------------------------------- concurrent invocations
\* Invocations of process_video that run at the same time, each with one
\* worker thread. queues and events are the queue.Queue and threading.Event
\* objects constructed so far, by their identity; runs[r] holds the locals
\* of invocation r and of its reader thread under their names, frame_queue
\* and processing_done being the identities of the objects the names are
\* bound to, and tasks the work items of its executor. The frames of these
\* sources are arrays and no task raises. One step is one iteration of the
\* reader loop, a work item run to its end, step 1 of a control loop
\* iteration, or its steps 2 and 3.

\* the invocations, and the numbers of frames their sources may have
Runs == { 1, 2 }
RunLengths == { 1, 2 }

\* the state of the single invocation
one_run == << num_threads, processing_width, movenet_signature,
              model_input_size, radius, confidence_threshold,
              dilation_iterations, blur_kernel_size, sample, video, cap,
              cap_pos, processing_params, frame_queue, processing_done,
              r_pc, frame_idx, frame_read_count, r_frame,
              c_pc, end_of_frames_signal_received, futures, results,
              next_frame_to_write, frames_processed, frames_read_from_queue,
              frames_written, return_code, retval, tasks,
              ffmpeg_process, pipe_broken, sink, timeout_counter >>

\* the object of a name bound once at module level, as main.py binds its
\* frame_queue and processing_done
Construct_ModuleLevel(objs) == 1

\* queue.Queue(maxsize=...), threading.Event(): a constructor call returns an
\* object that did not exist before
Construct(objs) == Cardinality(DOMAIN objs) + 1

\* an invocation at its call, its source having `frames` frames
Called(frames) ==
  [ c_pc |-> "start", r_pc |-> "unstarted", frames |-> frames,
    num_threads |-> 1, frame_queue |-> 0, processing_done |-> 0,
    processing_params |-> NoParams, cap_pos |-> 0, frame_idx |-> 0,
    end_of_frames_signal_received |-> FALSE, futures |-> {},
    results |-> EmptyMap, next_frame_to_write |-> 0, frames_written |-> 0,
    tasks |-> EmptyMap, sink |-> << >>, pipe_broken |-> FALSE ]

\* two invocations are called, each on a one-frame or a two-frame source
InitRuns ==
  /\ num_threads = 1
  /\ processing_width = 0
  /\ video \in { Source(2, 30, TRUE, d) : d \in SourceDims }
  /\ PipelineCall
  /\ Idle
  /\ queues = EmptyMap
  /\ events = EmptyMap
  /\ runs \in [Runs -> { Called(frames) : frames \in RunLengths }]

\* lines 147-149 and 185-194, 253-280: the queue and the abort flag are
\* constructed, the parameters put together, the reader thread started
RunStart(r) ==
  /\ runs[r].c_pc = "start"
  /\ LET q == Construct(queues)
         e == Construct(events)
     IN  /\ queues' = (q :> << >>) @@ queues
         /\ events' = (e :> FALSE) @@ events
         /\ runs' = [runs EXCEPT
                       ![r].frame_queue = q,
                       ![r].processing_done = e,
                       ![r].processing_params =
                          ProcessingParams(video.width, video.height,
                                           processing_width,
                                           runs[r].num_threads,
                                           confidence_threshold, radius,
                                           dilation_iterations,
                                           blur_kernel_size),
                       ![r].r_pc = "loop",
                       ![r].c_pc = "loop"]
  /\ UNCHANGED one_run

\* lines 94-125: one iteration of the reader loop (the reader sleeps while the
\* queue is at max_queue_size); after the loop the sentinel puts and the exit
RunReader(r) ==
  LET run == runs[r]
      q == queues[run.frame_queue]
      maxsize == QueueMaxsize(run.num_threads)
      sentinels(queue) == PutSentinels(queue, NumSentinels(run), maxsize)
  IN  /\ run.r_pc = "loop"
      /\ IF ReaderStops(events[run.processing_done])
         THEN /\ queues' = [queues EXCEPT ![run.frame_queue] = sentinels(q)]
              /\ runs' = [runs EXCEPT ![r].r_pc = "exited"]
         ELSE /\ ~ReaderQueueFull(q, ReaderMaxQueueSize(maxsize))
              /\ IF run.cap_pos < run.frames
                 THEN /\ queues' =
                           [queues EXCEPT ![run.frame_queue] =
                              Append(q, << [pos |-> run.cap_pos,
                                            shape |-> << video.height,
                                                         video.width, 3 >>],
                                           run.frame_idx >>)]
                      /\ runs' = [runs EXCEPT
                                    ![r].cap_pos = @ + 1,
                                    ![r].frame_idx = NextFrameIdx(@)]
                 ELSE /\ queues' = [queues EXCEPT ![run.frame_queue] =
                                      sentinels(Append(q, None))]
                      /\ runs' = [runs EXCEPT ![r].r_pc = "exited"]
      /\ UNCHANGED << one_run, events >>

\* the executor of invocation r: its worker runs the oldest pending work item
\* to its end
RunWorker(r) ==
  LET run == runs[r]
  IN  /\ Pending(run.tasks) # {}
      /\ LET k == CHOOSE j \in Pending(run.tasks) :
                    \A i \in Pending(run.tasks) : j <= i
             out == process_frame(run.tasks[k].frame_data, movenet_signature,
                                  model_input_size, run.processing_params,
                                  sample, "none", 0)
         IN  runs' = [runs EXCEPT ![r].tasks[k] =
                        [st |-> "done", frame_data |-> None, out |-> out]]
      /\ UNCHANGED << one_run, queues, events >>

\* lines 282-309: the loop test and step 1 of an iteration
RunSubmit(r) ==
  LET run == runs[r]
      q == queues[run.frame_queue]
  IN  /\ run.c_pc = "loop"
      /\ IF ~LoopCondition(run.end_of_frames_signal_received, run.futures,
                           run.results)
         THEN /\ runs' = [runs EXCEPT ![r].c_pc = "shutdown"]
              /\ UNCHANGED queues
         ELSE IF ~SubmitAllowed(run.end_of_frames_signal_received,
                                run.futures, run.num_threads)
         THEN /\ runs' = [runs EXCEPT ![r].c_pc = "collect"]
              /\ UNCHANGED queues
         ELSE IF q = << >>
         THEN /\ runs' = [runs EXCEPT
                            ![r].end_of_frames_signal_received =
                               ReaderDone(ReaderAlive(run.r_pc), q),
                            ![r].c_pc = "collect"]
              /\ UNCHANGED queues
         ELSE LET frame_data == QueueGet(q).item
              IN  /\ queues' = [queues EXCEPT ![run.frame_queue] =
                                  QueueGet(q).rest]
                  /\ runs' =
                       IF frame_data = None
                       THEN [runs EXCEPT
                               ![r].end_of_frames_signal_received = TRUE,
                               ![r].c_pc = "collect"]
                       ELSE [runs EXCEPT
                               ![r].futures = @ \cup { frame_data[2] },
                               ![r].tasks =
                                  (frame_data[2] :>
                                     [st |-> "pending",
                                      frame_data |-> frame_data,
                                      out |-> None]) @@ @,
                               ![r].c_pc = "collect"]
      /\ UNCHANGED << one_run, events >>

\* lines 311-381: steps 2 and 3 of an iteration; a write that fails sets the
\* abort flag of the invocation, empties its queue and cancels its futures
RunCollect(r) ==
  LET run == runs[r]
      done_futures == run.futures \cap Finished(run.tasks)
      collected == Collected(run.futures, run.tasks, run.results,
                             run.processing_params)
      kept == [k \in (DOMAIN run.tasks) \ done_futures |-> run.tasks[k]]
  IN  /\ run.c_pc = "collect"
      /\ \E wl \in { WriteLoop(collected, run.next_frame_to_write,
                                run.frames_written, run.sink, fail,
                                run.processing_params) :
                        fail \in { -1 } \cup DOMAIN collected } :
           IF wl.failed
           THEN /\ events' = [events EXCEPT ![run.processing_done] = TRUE]
                /\ queues' = [queues EXCEPT ![run.frame_queue] = << >>]
                /\ runs' = [runs EXCEPT
                              ![r].pipe_broken = TRUE,
                              ![r].futures = {},
                              ![r].results = EmptyMap,
                              ![r].tasks =
                                 CancelFutures(kept,
                                               run.futures \ done_futures),
                              ![r].next_frame_to_write = wl.next,
                              ![r].frames_written = wl.written,
                              ![r].sink = wl.sink,
                              ![r].c_pc = "shutdown"]
           ELSE /\ runs' = [runs EXCEPT
                              ![r].futures = @ \ done_futures,
                              ![r].results = wl.results,
                              ![r].tasks = kept,
                              ![r].next_frame_to_write = wl.next,
                              ![r].frames_written = wl.written,
                              ![r].sink = wl.sink,
                              ![r].c_pc =
                                 IF /\ done_futures = {}
                                    /\ Len(wl.sink) = Len(run.sink)
                                    /\ run.end_of_frames_signal_received
                                    /\ run.futures = {}
                                    /\ DOMAIN wl.results = {}
                                 THEN "shutdown"
                                 ELSE "loop"]
                /\ UNCHANGED << queues, events >>
      /\ UNCHANGED one_run

\* lines 383-466: the executor is shut down, the abort flag set for the
\* reader, the sink closed, frames_written returned
RunCleanup(r) ==
  LET run == runs[r]
  IN  /\ run.c_pc = "shutdown"
      /\ Pending(run.tasks) = {}
      /\ events' = [events EXCEPT ![run.processing_done] = TRUE]
      /\ runs' = [runs EXCEPT ![r].tasks = EmptyMap, ![r].c_pc = "done"]
      /\ UNCHANGED << one_run, queues >>

NextRuns ==
  \E r \in Runs :
    \/ RunStart(r)
    \/ RunReader(r)
    \/ RunWorker(r)
    \/ RunSubmit(r)
    \/ RunCollect(r)
    \/ RunCleanup(r)

\* ------------------------------------------------------------------ main.py
\* The pipeline of main.py: frame_queue and processing_done are module-level
\* objects, the control loop's end_of_frames is held in
\* end_of_frames_signal_received, its other locals and those of its
\* frame_reader have the names of video_processor.py. The frames of its
\* sources are arrays.

\* frame_queue = queue.Queue(maxsize=16)
MainQueueMaxsize == 16

\* reader_queue_size = min(64, total_frames // 2) if total_frames > 100 else 32
reader_queue_size(total_frames) ==
  IF total_frames > 100
  THEN (IF 64 <= total_frames \div 2 THEN 64 ELSE total_frames \div 2)
  ELSE 32

\* a single worker and a source two frames longer than the queue is large,
\* processing_width left at its default None
InitMain ==
  /\ num_threads = 1
  /\ processing_width = 0
  /\ video \in { Source(MainQueueMaxsize + 2, 30, TRUE, d) : d \in SourceDims }
  /\ PipelineCall
  /\ Idle
  /\ OneRun

\* lines 497-644: clear the abort flag and the queue, open the source, start
\* ffmpeg and the reader thread
MainStart ==
  /\ c_pc = "start"
  /\ processing_done' = FALSE
  /\ frame_queue' = << >>
  /\ \E popen_ok \in BOOLEAN :
       IF ~video.readable
       THEN \* "Could not open input video file"; return
            /\ c_pc' = "done"
            /\ UNCHANGED << cap, processing_params, ffmpeg_process, r_pc >>
       ELSE IF ~popen_ok
       THEN \* cap.release(); return
            /\ c_pc' = "done"
            /\ cap' = "released"
            /\ UNCHANGED << processing_params, ffmpeg_process, r_pc >>
       ELSE /\ c_pc' = "loop"
            /\ cap' = "open"
            /\ processing_params' =
                 ProcessingParams(video.width, video.height,
                                  processing_width, num_threads,
                                  confidence_threshold, radius,
                                  dilation_iterations, blur_kernel_size)
            /\ ffmpeg_process' = "running"
            /\ r_pc' = "loop"
  /\ UNCHANGED << num_threads, processing_width, movenet_signature,
                  model_input_size, radius, confidence_threshold,
                  dilation_iterations, blur_kernel_size, sample, video,
                  queues, events, runs, timeout_counter,
                  cap_pos, frame_idx, frame_read_count, r_frame,
                  end_of_frames_signal_received, futures, results,
                  next_frame_to_write, frames_processed,
                  frames_read_from_queue, frames_written, return_code, retval,
                  tasks, pipe_broken, sink >>

\* lines 443-455: the loop test, the queue-size test (the reader sleeps while
\* it holds) and ret, frame = cap.read()
MainReaderRead ==
  /\ r_pc = "loop"
  /\ IF ReaderStops(processing_done)
     THEN /\ r_pc' = "sentinels"
          /\ UNCHANGED << r_frame, cap_pos >>
     ELSE /\ ~ReaderQueueFull(frame_queue, reader_queue_size(video.frames))
          /\ IF cap_pos < video.frames
             THEN /\ r_frame' = [pos |-> cap_pos,
                                 shape |-> << video.height, video.width, 3 >>]
                  /\ cap_pos' = cap_pos + 1
                  /\ r_pc' = "put"
             ELSE /\ r_pc' = "eof"
                  /\ UNCHANGED << r_frame, cap_pos >>
  /\ UNCHANGED << num_threads, processing_width, movenet_signature,
                  model_input_size, radius, confidence_threshold,
                  dilation_iterations, blur_kernel_size, sample, video,
                  queues, events, runs, timeout_counter,
                  cap, processing_params, frame_queue, processing_done,
                  frame_idx, frame_read_count, c_pc,
                  end_of_frames_signal_received, futures, results,
                  next_frame_to_write, frames_processed,
                  frames_read_from_queue, frames_written, return_code, retval,
                  tasks, ffmpeg_process, pipe_broken, sink >>

\* line 454: frame_queue.put(None), a blocking put without timeout
MainReaderPutEof ==
  /\ r_pc = "eof"
  /\ QueueHasRoom(frame_queue, MainQueueMaxsize)
  /\ frame_queue' = Append(frame_queue, None)
  /\ r_pc' = "sentinels"
  /\ UNCHANGED << num_threads, processing_width, movenet_signature,
                  model_input_size, radius, confidence_threshold,
                  dilation_iterations, blur_kernel_size, sample, video,
                  queues, events, runs, timeout_counter,
                  cap, cap_pos, processing_params, processing_done,
                  frame_idx, frame_read_count, r_frame, c_pc,
                  end_of_frames_signal_received, futures, results,
                  next_frame_to_write, frames_processed,
                  frames_read_from_queue, frames_written, return_code, retval,
                  tasks, ffmpeg_process, pipe_broken, sink >>

\* lines 458-471: frame_queue.put((frame, frame_idx, params), timeout=1.0);
\* on queue.Full (the queue had no room for a second) the loop goes on to
\* the next read, frame_idx as it was
MainReaderPut ==
  /\ r_pc = "put"
  /\ IF QueueHasRoom(frame_queue, MainQueueMaxsize)
     THEN /\ frame_queue' = Append(frame_queue, << r_frame, frame_idx >>)
          /\ frame_idx' = NextFrameIdx(frame_idx)
          /\ frame_read_count' = frame_read_count + 1
     ELSE UNCHANGED << frame_queue, frame_idx, frame_read_count >>
  /\ r_frame' = None
  /\ r_pc' = "loop"
  /\ UNCHANGED << num_threads, processing_width, movenet_signature,
                  model_input_size, radius, confidence_threshold,
                  dilation_iterations, blur_kernel_size, sample, video,
                  queues, events, runs, timeout_counter,
                  cap, cap_pos, processing_params, processing_done, c_pc,
                  end_of_frames_signal_received, futures, results,
                  next_frame_to_write, frames_processed,
                  frames_read_from_queue, frames_written, return_code, retval,
                  tasks, ffmpeg_process, pipe_broken, sink >>

\* lines 474-483: five times frame_queue.put(None, block=False), then the
\* thread exits
MainReaderSentinel ==
  /\ r_pc = "sentinels"
  /\ frame_queue' = PutSentinels(frame_queue, 5, MainQueueMaxsize)
  /\ r_pc' = "exited"
  /\ UNCHANGED << num_threads, processing_width, movenet_signature,
                  model_input_size, radius, confidence_threshold,
                  dilation_iterations, blur_kernel_size, sample, video,
                  queues, events, runs, timeout_counter,
                  cap, cap_pos, processing_params, processing_done,
                  frame_idx, frame_read_count, r_frame, c_pc,
                  end_of_frames_signal_received, futures, results,
                  next_frame_to_write, frames_processed,
                  frames_read_from_queue, frames_written, return_code, retval,
                  tasks, ffmpeg_process, pipe_broken, sink >>

\* lines 646-679: the loop test and step 1. frames_read_from_queue counts the
\* sentinel too; timeout_counter stops at 21, every larger count doing the
\* same
MainSubmit ==
  /\ c_pc = "loop"
  /\ IF ~LoopCondition(end_of_frames_signal_received, futures, results)
     THEN /\ c_pc' = "finish"
          /\ UNCHANGED << frame_queue, end_of_frames_signal_received,
                          frames_read_from_queue, futures, tasks,
                          timeout_counter >>
     ELSE /\ c_pc' = "collect"
          /\ IF ~SubmitAllowed(end_of_frames_signal_received, futures,
                               num_threads)
             THEN UNCHANGED << frame_queue, end_of_frames_signal_received,
                               frames_read_from_queue, futures, tasks,
                               timeout_counter >>
             ELSE IF frame_queue # << >>
             THEN LET frame_data == QueueGet(frame_queue).item
                  IN  /\ frame_queue' = QueueGet(frame_queue).rest
                      /\ frames_read_from_queue' = frames_read_from_queue + 1
                      /\ IF frame_data = None
                         THEN /\ end_of_frames_signal_received' = TRUE
                              /\ UNCHANGED << futures, tasks,
                                              timeout_counter >>
                         ELSE /\ futures' = futures \cup { frame_data[2] }
                              /\ tasks' = (frame_data[2] :>
                                             [st |-> "pending",
                                              frame_data |-> frame_data,
                                              out |-> None]) @@ tasks
                              /\ timeout_counter' = 0
                              /\ UNCHANGED end_of_frames_signal_received
             ELSE \* queue.Empty after the timeout
                  /\ timeout_counter' =
                       (IF timeout_counter >= 21 THEN 21
                        ELSE timeout_counter + 1)
                  /\ end_of_frames_signal_received' =
                       (timeout_counter' > 20
                          /\ frames_read_from_queue >= video.frames)
                  /\ UNCHANGED << frame_queue, frames_read_from_queue,
                                  futures, tasks >>
  /\ UNCHANGED << num_threads, processing_width, movenet_signature,
                  model_input_size, radius, confidence_threshold,
                  dilation_iterations, blur_kernel_size, sample, video,
                  queues, events, runs,
                  cap, cap_pos, processing_params, processing_done, r_pc,
                  frame_idx, frame_read_count, r_frame, results,
                  next_frame_to_write, frames_processed, frames_written,
                  return_code, retval, ffmpeg_process, pipe_broken, sink >>

\* lines 682-746: steps 2 and 3 of an iteration. The batch is every buffered
\* frame from the cursor on without a gap; the cursor moves past the batch
\* before the first write, a frame that is None or of another height or
\* width is replaced by a blank one, and a write that fails ends the loop
MainCollect ==
  /\ c_pc = "collect"
  /\ LET done_futures == futures \cap Finished(tasks)
         collected == Collected(futures, tasks, results, processing_params)
         frames_to_write ==
           { k \in DOMAIN collected :
               /\ k >= next_frame_to_write
               /\ \A j \in next_frame_to_write..k : j \in DOMAIN collected }
     IN  /\ futures' = futures \ done_futures
         /\ frames_processed' =
              frames_processed
                + Cardinality({ k \in done_futures : ~tasks[k].out.raised })
         /\ tasks' = [k \in (DOMAIN tasks) \ done_futures |-> tasks[k]]
         /\ results' = [k \in (DOMAIN collected) \ frames_to_write |->
                          collected[k]]
         /\ next_frame_to_write' =
              next_frame_to_write + Cardinality(frames_to_write)
         /\ \E fail \in { -1 } \cup frames_to_write :
              LET written == IF fail = -1
                             THEN Cardinality(frames_to_write)
                             ELSE fail - next_frame_to_write
              IN  /\ frames_written' = frames_written + written
                  /\ sink' = sink \o [i \in 1..written |->
                                        next_frame_to_write + i - 1]
                  /\ IF fail # -1
                     THEN /\ processing_done' = TRUE
                          /\ pipe_broken' = TRUE
                          /\ c_pc' = "finish"
                     ELSE /\ UNCHANGED << processing_done, pipe_broken >>
                          /\ c_pc' = "loop"
  /\ UNCHANGED << num_threads, processing_width, movenet_signature,
                  model_input_size, radius, confidence_threshold,
                  dilation_iterations, blur_kernel_size, sample, video,
                  queues, events, runs, timeout_counter,
                  cap, cap_pos, processing_params, frame_queue, r_pc,
                  frame_idx, frame_read_count, r_frame,
                  end_of_frames_signal_received, frames_read_from_queue,
                  return_code, retval, ffmpeg_process >>

\* lines 637 and 748-797: the executor is shut down once its work items have
\* run, the abort flag set, the reader joined for up to 5 seconds, stdin
\* closed, ffmpeg waited for, frames_written returned
MainFinish ==
  /\ c_pc = "finish"
  /\ Pending(tasks) = {}
  /\ Running(tasks) = {}
  /\ tasks' = EmptyMap
  /\ processing_done' = TRUE
  /\ \E rc \in { 0, 1 } : return_code' = << rc >>
  /\ ffmpeg_process' = "exited"
  /\ cap' = "released"
  /\ retval' = << frames_written >>
  /\ c_pc' = "done"
  /\ UNCHANGED << num_threads, processing_width, movenet_signature,
                  model_input_size, radius, confidence_threshold,
                  dilation_iterations, blur_kernel_size, sample, video,
                  queues, events, runs, timeout_counter,
                  cap_pos, processing_params, frame_queue, r_pc,
                  frame_idx, frame_read_count, r_frame,
                  end_of_frames_signal_received, futures, results,
                  next_frame_to_write, frames_processed,
                  frames_read_from_queue, frames_written, pipe_broken, sink >>

\* -------------------------------------------------------------------- Next
Reader == ReaderCheck \/ ReaderRead \/ ReaderPutEof \/ ReaderPut
            \/ ReaderSentinel

Workers == WorkerStart \/ \E k \in DOMAIN tasks : WorkerFinish(k)

Control == CtrlSubmit \/ CtrlExitLoop \/ CtrlCollect \/ CtrlDrain
             \/ CtrlDrainGet
             \/ CtrlShutdown \/ CtrlCleanup \/ CtrlJoin \/ CtrlCommunicate
             \/ CtrlReturn

Next == Start \/ Reader \/ Workers \/ Control

Spec == Init /\ [][Next]_vars

SpecBackpressure == InitBackpressure /\ [][Next]_vars

SpecSentinel == InitSentinel /\ [][Next]_vars

SpecDetector == InitDetector /\ [][Next]_vars

SpecConfig == InitConfig /\ [][Next]_vars

SpecGeometry == InitGeometry /\ [][Next]_vars

SpecPose == InitPose /\ [][Next]_vars

SpecMask == InitMask /\ [][Next]_vars

SpecPost == InitPost /\ [][Next]_vars

SpecComposite == InitComposite /\ [][Next]_vars

SpecRuns == InitRuns /\ [][NextRuns]_vars

NextMain ==
  \/ MainStart
  \/ MainReaderRead \/ MainReaderPutEof \/ MainReaderPut \/ MainReaderSentinel
  \/ Workers
  \/ MainSubmit \/ MainCollect \/ MainFinish

SpecMain == InitMain /\ [][NextMain]_vars

\* fair scheduling of the reader thread, the worker threads and the control
\* loop
FairSpec ==
  /\ InitFair /\ [][Next]_vars
  /\ WF_vars(Start)
  /\ WF_vars(Reader)
  /\ WF_vars(Workers)
  /\ WF_vars(Control)

\* the same scheduling with a reader thread that may die
FairSpecReaderFault ==
  /\ InitReaderFault /\ [][Next]_vars
  /\ WF_vars(Start)
  /\ WF_vars(Reader)
  /\ WF_vars(Workers)
  /\ WF_vars(Control)

\* ================================================================== claims
LoopPcs == { "loop", "collect", "drain", "drain_get" }
PostLoopPcs == { "shutdown", "cleanup", "join", "communicate", "report",
                 "done" }
TargetShape == << processing_params.target_h, processing_params.target_w, 4 >>
QueuedTasks == SelectSeq(frame_queue, LAMBDA item : item # None)
\* the futures whose task raised and whose outcome is not yet collected
RaisedFutures ==
  { k \in futures : tasks[k].st = "done" /\ tasks[k].out.raised }
\* the frame indices written to the sink by the step
WrittenByStep == { sink'[i] : i \in (Len(sink) + 1)..Len(sink') }
\* the futures that hold a per-frame error and are not yet collected: the
\* task raised, or it returned the blank frame of an error path
ErrorFutures ==
  { k \in futures :
      /\ tasks[k].st = "done"
      /\ (tasks[k].out.raised \/ tasks[k].out.frame.kind = "blank") }
\* the counters of process_video other than the processed count
OtherCounters == << frames_read_from_queue, frames_written >>

\* C1 -- strict in-order emission: the frame indices written to the sink are
\* exactly 0, 1, 2, ... with no gap and no repeat, whatever the completion
\* order of the workers.
C1_InOrderEmission ==
  \A i \in 1..Len(sink) : sink[i] = i - 1

\* a later frame is buffered, completed out of order, while frame 0 is
\* written and frame 1 is still in flight
C1_Witness ==
  /\ sink = << 0 >>
  /\ next_frame_to_write = 1
  /\ 2 \in DOMAIN results
  /\ 1 \in futures

\* C2 -- completion: under fair scheduling the control loop exits, and when no
\* sink write failed every frame of the source has been written at exit.
C2_Completion ==
  /\ (c_pc = "loop") ~> (c_pc = "done")
  /\ [](c_pc \in PostLoopPcs /\ ~pipe_broken
          => frames_written = video.frames)

C2_Witness ==
  /\ c_pc = "done"
  /\ ~pipe_broken
  /\ num_threads = MaxThreads
  /\ frames_written = video.frames
  /\ retval = << video.frames >>

\* C3 -- resilience: a worker task that raises out of process_frame still gets
\* a blank Result of the target dimensions under its index (the collecting
\* step leaves it in the buffer or writes it), the run is not aborted by it,
\* and under fair scheduling, without a sink failure, the run completes with
\* every frame written.
C3_Resilience ==
  /\ [][(c_pc = "collect" /\ c_pc' \in { "loop", "shutdown" })
          => \A k \in RaisedFutures :
               \/ /\ k \in DOMAIN results'
                  /\ results'[k] = [shape |-> TargetShape, kind |-> "blank",
                                    pixel |-> [colour |-> 0, alpha |-> 0]]
               \/ k \in WrittenByStep]_vars
  /\ [](processing_done /\ c_pc \in LoopPcs => pipe_broken)
  /\ [](c_pc \in PostLoopPcs /\ ~pipe_broken
          => sink = [i \in 1..video.frames |-> i - 1])
  /\ (RaisedFutures # {}) ~> (c_pc = "done")

\* the task of the frame that is next to be written has raised, a later frame
\* waits in the buffer behind it
C3_Witness ==
  /\ c_pc = "collect"
  /\ next_frame_to_write \in RaisedFutures
  /\ next_frame_to_write + 1 \in DOMAIN results
  /\ ~processing_done

\* C4 -- partial-success count: when the write of frame index k is the first
\* to fail, frames_written is k-1 or k, it is the number of frames the sink
\* received, and process_video returns it instead of raising.
C4_PartialCount ==
  pipe_broken
    => /\ frames_written \in { next_frame_to_write - 1, next_frame_to_write }
       /\ \A i \in 1..Len(sink) : sink[i] < next_frame_to_write
       /\ frames_written = Len(sink)
       /\ c_pc # "raised"
       /\ (c_pc = "done" => retval = << frames_written >>)

C4_Witness ==
  /\ c_pc = "done"
  /\ pipe_broken
  /\ next_frame_to_write = 1
  /\ retval = << 1 >>

\* C5 -- after a sink write failure set the abort flag, no frame is written
\* and no task is submitted; a task a worker is running is left to finish, and
\* the only work items removed at the cancel are the pending ones.
C5_NoWorkAfterAbort ==
  [][pipe_broken
       => /\ sink' = sink
          /\ frames_written' = frames_written
          /\ frames_read_from_queue' = frames_read_from_queue
          /\ DOMAIN tasks' \subseteq DOMAIN tasks
          /\ \A k \in DOMAIN tasks :
               /\ tasks[k].st = "running"
                    => (k \in DOMAIN tasks'
                          /\ tasks'[k].st \in { "running", "done" })
               /\ (c_pc = "drain" /\ k \notin DOMAIN tasks')
                    => (tasks[k].st = "pending" /\ k \in futures)]_vars

\* after the cancel a task is still running while another one, submitted and
\* never collected, is gone from the executor
C5_Witness ==
  /\ pipe_broken
  /\ c_pc = "shutdown"
  /\ Running(tasks) # {}
  /\ frames_read_from_queue
       > frames_processed + Cardinality(DOMAIN tasks)

\* C6 -- deadlock-free abort: once the abort flag is set the reader never
\* starts another read (so it reads at most the one frame it was about to
\* read), and under fair scheduling the reader exits, the in-flight tasks
\* finish and process_video runs to its end.
C6_DeadlockFreeAbort ==
  /\ [][(processing_done /\ r_pc' = "read") => r_pc = "read"]_vars
  /\ pipe_broken ~> (c_pc = "done" /\ r_pc = "exited" /\ DOMAIN tasks = {})

\* the run ended after an abort, the reader exited, and frames the reader had
\* enqueued were never submitted
C6_Witness ==
  /\ pipe_broken
  /\ c_pc = "done"
  /\ r_pc = "exited"
  /\ frame_idx > frames_read_from_queue

\* C7 -- every run that started the sink ends with the sink process closed
\* and its exit status collected; a status of -1 is recorded only together
\* with the forced kill of the process.
C7_SinkClosedAtDone ==
  c_pc = "done"
    => /\ return_code # None
       /\ ffmpeg_process \in { "exited", "killed" }
       /\ (return_code = << -1 >> <=> ffmpeg_process = "killed")

\* C8 -- backpressure: the work queue never holds more than 4 * num_threads
\* items, and the reader takes a frame from the source only while the queue
\* is not full.
C8_Backpressure ==
  /\ [](Len(frame_queue) <= 4 * num_threads)
  /\ [][cap_pos' # cap_pos => Len(frame_queue) < 4 * num_threads]_vars

\* the queue is full and the reader is held back with a frame left to read
C8_Witness ==
  /\ Len(frame_queue) = 4 * num_threads
  /\ r_pc = "loop"
  /\ ~processing_done
  /\ cap_pos < video.frames

\* C9 -- the reader numbers the frames 0, 1, 2, ... without gap or repeat: the
\* j-th frame read from the source is enqueued with index j, and every frame
\* read is enqueued.
C9_ReaderIndices ==
  /\ frame_idx = frame_read_count
  /\ cap_pos = frame_idx + (IF r_pc = "put" THEN 1 ELSE 0)
  /\ r_pc = "put" => r_frame.pos = frame_idx
  /\ \A i \in 1..Len(QueuedTasks) :
       /\ QueuedTasks[i][1].pos = QueuedTasks[i][2]
       /\ QueuedTasks[i][2] = frame_idx - Len(QueuedTasks) + (i - 1)
  /\ \A k \in DOMAIN tasks :
       tasks[k].st # "done"
         => (tasks[k].frame_data[2] = k /\ tasks[k].frame_data[1].pos = k)

C9_Witness ==
  /\ Len(QueuedTasks) >= 2
  /\ frames_read_from_queue >= 1
  /\ frame_idx = video.frames

\* C10 -- every Result handed to the reassembly buffer has 4 channels and the
\* target height and width, so the shape test before a sink write accepts it.
C10_ResultGeometry ==
  /\ \A k \in DOMAIN results : results[k].shape = TargetShape
  /\ \A k \in DOMAIN tasks :
       (tasks[k].st = "done" /\ ~tasks[k].out.raised)
         => tasks[k].out.frame.shape = TargetShape
  /\ c_pc = "collect"
       => LET collected == Collected(futures, tasks, results,
                                     processing_params)
          IN  \A k \in DOMAIN collected :
                ShapeMatches(collected[k], processing_params)

\* with a resize configured, a composited and a blank Result wait in the buffer
C10_Witness ==
  /\ processing_params.target_w # processing_params.orig_w
  /\ \E k \in DOMAIN results : results[k].kind = "composited"
  /\ \E k \in DOMAIN results : results[k].kind = "blank"

\* C11 -- every per-frame error is replaced by a blank frame and is counted:
\* the step that collects errors advances, by their number, a counter that is
\* not the processed count.
C11_ErrorCounter ==
  [][(c_pc = "collect" /\ c_pc' \in { "loop", "shutdown" }
        /\ ErrorFutures # {})
       => /\ \A k \in ErrorFutures :
               \/ /\ k \in DOMAIN results'
                  /\ results'[k] = [shape |-> TargetShape, kind |-> "blank",
                                    pixel |-> [colour |-> 0, alpha |-> 0]]
               \/ k \in WrittenByStep
          /\ \E i \in 1..Len(OtherCounters) :
               OtherCounters'[i]
                 = OtherCounters[i] + Cardinality(ErrorFutures)]_vars

\* C12 -- source errors fail fast: a source that cannot be opened or reports
\* no frame or no positive frame rate makes process_video raise with the sink
\* never started, the reader never started and no capture left open.
C12_SourceFailFast ==
  (~video.readable \/ video.frames <= 0 \/ video.fps <= 0)
    => /\ c_pc \in { "start", "raised" }
       /\ ffmpeg_process = "none"
       /\ r_pc = "unstarted"
       /\ cap # "open"
       /\ (c_pc = "raised" /\ video.readable) => cap = "released"

\* a readable source with frames and a frame rate of 0 was rejected
C12_Witness ==
  /\ c_pc = "raised"
  /\ video.readable
  /\ video.frames > 0
  /\ video.fps <= 0
  /\ cap = "released"
  /\ ffmpeg_process = "none"

\* C13 -- configuration errors fail fast: with a worker count <= 0 or a
\* negative processing width process_video raises before the sink process and
\* the reader thread are started.
C13_ConfigFailFast ==
  (num_threads <= 0 \/ processing_width < 0)
    => /\ c_pc \in { "start", "raised" }
       /\ ffmpeg_process = "none"
       /\ r_pc = "unstarted"

\* C14 -- output geometry: with 0 < pw < source width the target is (pw, h),
\* h an even integer within one of source height * pw / source width (the
\* exact quotient rounded to an even integer); with pw absent, pw <= 0 or
\* pw >= source width the target is the source width and height.
C14_OutputGeometry ==
  processing_params # NoParams =>
    LET ow == video.width
        oh == video.height
        pw == processing_width
        w == processing_params.target_w
        h == processing_params.target_h
    IN  IF pw > 0 /\ pw < ow
        THEN /\ w = pw
             /\ h % 2 = 0
             /\ (h - 1) * ow <= oh * pw
             /\ oh * pw <= (h + 1) * ow
        ELSE w = ow /\ h = oh

\* a configured width below the source width whose exact height has an odd
\* integer part: the target height is the even integer above it
C14_Witness ==
  /\ processing_params # NoParams
  /\ processing_width > 0
  /\ processing_width < video.width
  /\ processing_params.target_h * video.width
       > video.height * processing_width
  /\ processing_params.target_h % 2 = 0

\* the frame process_frame hands to detect_pose: rows and columns
FrameRows == processing_params.target_h
FrameCols == processing_params.target_w
\* the work items that ran process_frame to its end and detected somebody
Detections ==
  { k \in DOMAIN tasks :
      /\ tasks[k].st = "done"
      /\ tasks[k].out.persons_keypoints # None
      /\ Len(tasks[k].out.persons_keypoints[1]) > 0 }
\* the persons work item k detected
Persons(k) == tasks[k].out.persons_keypoints[1]
\* the model reported every keypoint at the canvas image of pixel (y0, x0)
ReportedAt(y0, x0) ==
  /\ Len(movenet_signature[1]) > 0
  /\ \A j \in Keypoints :
       LET kp == Located(FrameRows, FrameCols, model_input_size,
                         [i \in Keypoints |-> << y0, x0 >>],
                         AllAbove(0))[j]
       IN  /\ movenet_signature[1][1].keypoints[j].y = kp.y
           /\ movenet_signature[1][1].keypoints[j].x = kp.x
\* the keypoints of a detection that carry coordinates: all of a single pose,
\* those of confidence above the threshold of one pose of several
Mapped(person_kps) ==
  { j \in Keypoints :
      \/ Len(movenet_signature[1]) = 1
      \/ person_kps[j].score > confidence_threshold }
\* |v - p| * scale < 1: the float v is less than one pixel of the model's
\* input away from the whole number p of frame pixels
WithinCanvasPixel(v, p) ==
  LET d == v[1] - p * v[2]
  IN  (IF d < 0 THEN -d ELSE d) * model_input_size
        < v[2] * Max(FrameRows, FrameCols)

\* C15 -- coordinate round trip: a keypoint the model reports at the place
\* where the letterbox (same scale, same padding) put pixel (y0, x0) of the
\* frame comes back from detect_pose within the rounding of the resize: less
\* than one pixel of the model's input away from (y0, x0), which is less than
\* one frame pixel when the frame is not larger than the input.
C15_RoundTrip ==
  \A k \in Detections :
    \A y0 \in 0..(FrameRows - 1), x0 \in 0..(FrameCols - 1) :
      ReportedAt(y0, x0) =>
        \A j \in Mapped(Persons(k)[1]) :
          LET kp == Persons(k)[1][j]
          IN  /\ WithinCanvasPixel(kp.y, y0)
              /\ WithinCanvasPixel(kp.x, x0)
              /\ (FrameRows <= model_input_size
                    /\ FrameCols <= model_input_size)
                   => /\ (y0 - 1) * kp.y[2] < kp.y[1]
                      /\ kp.y[1] < (y0 + 1) * kp.y[2]
                      /\ (x0 - 1) * kp.x[2] < kp.x[1]
                      /\ kp.x[1] < (x0 + 1) * kp.x[2]

\* a frame larger than the model's input, not square (so the canvas is
\* padded), with the last row's pixel coming back inexactly
C15_Witness ==
  \E k \in Detections :
    /\ FrameRows > model_input_size
    /\ FrameCols > FrameRows
    /\ ReportedAt(FrameRows - 1, 0)
    /\ LET kp == Persons(k)[1][KEYPOINT_DICT.left_wrist]
       IN  /\ kp.y[1] # (FrameRows - 1) * kp.y[2]
           /\ kp.x[1] = 0

\* C16 -- every keypoint coordinate detect_pose returns lies in the frame:
\* 0 <= y <= H - 1 and 0 <= x <= W - 1, for one pose and for several.
C16_Clamped ==
  \A k \in Detections :
    \A i \in DOMAIN Persons(k) :
      \A j \in Keypoints :
        LET kp == Persons(k)[i][j]
        IN  /\ 0 <= kp.y[1]
            /\ kp.y[1] <= (FrameRows - 1) * kp.y[2]
            /\ 0 <= kp.x[1]
            /\ kp.x[1] <= (FrameCols - 1) * kp.x[2]
            /\ kp.y[2] > 0
            /\ kp.x[2] > 0

\* several poses, the model's positions below 0 in y and beyond 1 in x: the
\* returned keypoint sits on the first row and the last column
C16_Witness ==
  \E k \in Detections :
    /\ Len(movenet_signature[1]) > 1
    /\ FrameCols > 1
    /\ movenet_signature[1][1].keypoints[KEYPOINT_DICT.nose].y[1] < 0
    /\ movenet_signature[1][1].keypoints[KEYPOINT_DICT.nose].x[1]
         > movenet_signature[1][1].keypoints[KEYPOINT_DICT.nose].x[2]
    /\ Persons(k)[1][KEYPOINT_DICT.nose].y = << 0, 1 >>
    /\ Persons(k)[1][KEYPOINT_DICT.nose].x
         = << FrameCols - 1, 1 >>

\* the persons drawn on a mask: << work item, place in persons_keypoints >>
Drawn ==
  UNION { { << k, i >> : i \in DOMAIN Persons(k) } :
            k \in Detections }
\* the keypoints of a drawn person and what create_mask drew for them
PersonKps(d) == Persons(d[1])[d[2]]
PersonMask(d) == tasks[d[1]].out.mask.drawn[d[2]]
\* the confidence of keypoint j of a pose exceeds the threshold
Confident(person_kps, j) == person_kps[j].score > confidence_threshold
\* the keypoints that are neither shoulder nor hip: nose, eyes, ears, elbows,
\* wrists, knees, ankles
HeadAndLimbJoints ==
  Keypoints \ { KEYPOINT_DICT.left_shoulder, KEYPOINT_DICT.right_shoulder,
                KEYPOINT_DICT.left_hip, KEYPOINT_DICT.right_hip }

\* C17 -- each of the 12 skeleton edges is drawn if and only if the
\* confidences of both its ends are strictly greater than the threshold (a
\* confidence equal to the threshold does not draw), and nothing but
\* skeleton edges is drawn as a line.
C17_EdgeGating ==
  /\ Len(SKELETON_LINES) = 12
  /\ \A d \in Drawn :
       /\ \A e \in DOMAIN SKELETON_LINES :
            (\E l \in PersonMask(d).lines :
               l.kp1 = SKELETON_LINES[e][1] /\ l.kp2 = SKELETON_LINES[e][2])
              <=> /\ Confident(PersonKps(d), SKELETON_LINES[e][1])
                  /\ Confident(PersonKps(d), SKELETON_LINES[e][2])
       /\ \A l \in PersonMask(d).lines :
            \E e \in DOMAIN SKELETON_LINES :
              l.kp1 = SKELETON_LINES[e][1] /\ l.kp2 = SKELETON_LINES[e][2]

\* the left elbow's confidence equals the threshold: the edge from the left
\* shoulder, whose confidence is above, is not drawn; the edge between the
\* shoulders is
C17_Witness ==
  \E d \in Drawn :
    /\ PersonKps(d)[KEYPOINT_DICT.left_elbow].score = confidence_threshold
    /\ Confident(PersonKps(d), KEYPOINT_DICT.left_shoulder)
    /\ Confident(PersonKps(d), KEYPOINT_DICT.right_shoulder)
    /\ \A l \in PersonMask(d).lines : l.kp2 # KEYPOINT_DICT.left_elbow
    /\ \E l \in PersonMask(d).lines :
         /\ l.kp1 = KEYPOINT_DICT.left_shoulder
         /\ l.kp2 = KEYPOINT_DICT.right_shoulder

\* C18 -- the torso is filled if and only if both shoulders and both hips
\* have a confidence strictly above the threshold, and what is filled is the
\* quadrilateral left shoulder, right shoulder, right hip, left hip, its
\* vertices in that order.
C18_TorsoFill ==
  \A d \in Drawn :
    PersonMask(d).polygons =
      IF /\ Confident(PersonKps(d), KEYPOINT_DICT.left_shoulder)
         /\ Confident(PersonKps(d), KEYPOINT_DICT.right_shoulder)
         /\ Confident(PersonKps(d), KEYPOINT_DICT.right_hip)
         /\ Confident(PersonKps(d), KEYPOINT_DICT.left_hip)
      THEN { << Point(PersonKps(d)[KEYPOINT_DICT.left_shoulder]),
                Point(PersonKps(d)[KEYPOINT_DICT.right_shoulder]),
                Point(PersonKps(d)[KEYPOINT_DICT.right_hip]),
                Point(PersonKps(d)[KEYPOINT_DICT.left_hip]) >> }
      ELSE {}

\* a torso filled between four different points
C18_Witness ==
  \E d \in Drawn :
    \E q \in PersonMask(d).polygons :
      /\ Cardinality({ q[v] : v \in DOMAIN q }) = 4
      /\ q[1] = Point(PersonKps(d)[KEYPOINT_DICT.left_shoulder])
      /\ q[3] = Point(PersonKps(d)[KEYPOINT_DICT.right_hip])

\* C19 -- a filled disk is drawn at a keypoint if and only if it is one of
\* the 13 head and limb joints and its confidence exceeds the threshold,
\* whether or not its point was cached by the line drawing; shoulders and
\* hips get no disk.
C19_JointCircles ==
  /\ Cardinality(HeadAndLimbJoints) = 13
  /\ \A d \in Drawn :
       { c.kp : c \in PersonMask(d).circles }
         = { j \in HeadAndLimbJoints : Confident(PersonKps(d), j) }

\* one disk at a joint whose point was cached (an end of a drawn line), one
\* at a joint whose point was not, none at a shoulder of high confidence
C19_Witness ==
  \E d \in Drawn :
    /\ \E c \in PersonMask(d).circles : c.cached
    /\ \E c \in PersonMask(d).circles : ~c.cached
    /\ Confident(PersonKps(d), KEYPOINT_DICT.left_shoulder)
    /\ \A c \in PersonMask(d).circles : c.kp # KEYPOINT_DICT.left_shoulder

\* C20 -- the thickness of every line and the radius of every disk equal
\* max(1, round(radius * 0.8)); round(radius * 0.8) is the floor of
\* (8 * radius + 5) / 10, no radius giving a tie.
C20_Thickness ==
  \A d \in Drawn :
    /\ \A l \in PersonMask(d).lines :
         l.thickness = Max(1, (8 * radius + 5) \div 10)
    /\ \A c \in PersonMask(d).circles :
         c.radius = Max(1, (8 * radius + 5) \div 10)

\* the work items process_frame composited a frame for
Composited ==
  { k \in DOMAIN tasks :
      tasks[k].st = "done" /\ tasks[k].out.frame.kind = "composited" }

\* the frame process_frame hands to detect_pose and create_mask
FrameShape == << FrameRows, FrameCols, 3 >>

\* create_mask called with the frame and the pose list of work item k
MaskOf(k) ==
  create_mask(FrameShape, tasks[k].out.persons_keypoints,
              processing_params.confidence_threshold,
              processing_params.radius,
              processing_params.dilation_iterations,
              processing_params.blur_kernel_size)

\* C21 -- mask emptiness: where detect_pose returned None or the empty list,
\* the mask process_frame takes on its fast path and the mask create_mask
\* makes of that pose list are both all zero and have the height and the
\* width of the frame.
C21_MaskEmptiness ==
  \A k \in Composited :
    (tasks[k].out.persons_keypoints \in { None, Some(<< >>) }) =>
      /\ AllZero(tasks[k].out.mask)
      /\ tasks[k].out.mask.shape = << FrameRows, FrameCols >>
      /\ AllZero(MaskOf(k))
      /\ MaskOf(k).shape = << FrameRows, FrameCols >>

\* a frame wider than high in which nobody was detected: the fast path left
\* the zeros as they were, create_mask would dilate and blur them
C21_Witness ==
  \E k \in Composited :
    /\ tasks[k].out.persons_keypoints = Some(<< >>)
    /\ FrameRows # FrameCols
    /\ tasks[k].out.mask = Zeros(<< FrameRows, FrameCols >>)
    /\ MaskOf(k).dilate # << >>
    /\ MaskOf(k).blur # << >>

\* the mask at the sample pixel of the frame of work item k
MaskAt(k) == IF k \in Detections THEN sample.mask ELSE 0

EofSentinels == IF cap_pos < video.frames THEN 0 ELSE 1

\* C23 -- sentinel sufficiency: when the reader has stopped, the sentinels it
\* has enqueued (the ones its last step added to the queue, and the end
\* sentinel if it read to the end of the stream) are at least num_threads.
C23_SentinelSufficiency ==
  [][(r_pc = "sentinels" /\ r_pc' = "exited") =>
       (Len(frame_queue') - Len(frame_queue)) + EofSentinels >= num_threads]_vars

\* C24 -- no queue operation blocks for ever. The puts and gets other than
\* two have a timeout or do not block; the reader's put of the end sentinel,
\* which has no timeout, is only reached with room in the queue, and the
\* get of the abort drain, which has no timeout, only with an item in it.
C24_NoIndefiniteBlock ==
  /\ r_pc = "eof" => QueueHasRoom(frame_queue, QueueMaxsize(num_threads))
  /\ c_pc = "drain_get" => frame_queue # << >>

\* the reader is about to put the end sentinel into the last free place of
\* the queue while the control loop is at the get of its drain
C24_Witness ==
  /\ r_pc = "eof"
  /\ Len(frame_queue) = QueueMaxsize(num_threads) - 1
  /\ c_pc = "drain_get"

\* C25 -- drain condition: a step by which the control loop leaves its loop
\* without an abort is taken only with the end of the frames observed, no
\* future in flight and the reassembly buffer empty, and the sink then holds
\* every index that was submitted.
C25_DrainCondition ==
  [][(c_pc \in LoopPcs /\ c_pc' = "shutdown" /\ ~pipe_broken') =>
       /\ end_of_frames_signal_received'
       /\ futures' = {}
       /\ DOMAIN results' = {}
       /\ { sink'[i] : i \in DOMAIN sink' }
            = 0..(frames_read_from_queue' - 1)]_vars

\* the loop was left without abort after every frame of the source was
\* submitted and written
C25_Witness ==
  /\ c_pc = "shutdown"
  /\ ~pipe_broken
  /\ frames_read_from_queue = NumFrames
  /\ Len(sink) = NumFrames
  /\ frames_written = NumFrames

\* the indices the sink has received
Written == { sink[i] : i \in DOMAIN sink }

\* C26 -- reassembly cursor: next_frame_to_write never decreases; every key of
\* the buffer is at or above the cursor; an index is put into the buffer at
\* most once (the collecting step inserts indices that were in flight, and an
\* index in flight is neither in the buffer nor written yet); and after a
\* collect-and-write step without sink failure the index at the cursor is not
\* in the buffer.
C26_ReassemblyCursor ==
  /\ [][next_frame_to_write' >= next_frame_to_write]_vars
  /\ [](\A k \in DOMAIN results : k >= next_frame_to_write)
  /\ [](futures \cap (DOMAIN results \cup Written) = {})
  /\ [][c_pc = "collect" =>
          (DOMAIN results' \ DOMAIN results) \subseteq (futures \ futures')]_vars
  /\ [][(c_pc = "collect" /\ c_pc' # "drain") =>
          next_frame_to_write' \notin DOMAIN results']_vars

\* after a collecting step that wrote frame 0 and buffered frame 2, which
\* completed before frame 1: the cursor waits at 1
C26_Witness ==
  /\ c_pc = "loop"
  /\ next_frame_to_write = 1
  /\ DOMAIN results = { 2 }
  /\ 1 \in futures
  /\ sink = << 0 >>
  /\ frames_processed = 2

\* C27 -- submission order: the index of every task the control loop submits
\* is above the index of every task submitted before it (it is the number of
\* tasks submitted before it), whatever the interleaving of the reader and the
\* workers; the order of completion is free.
C27_SubmissionOrder ==
  [][\A k \in futures' \ futures :
       /\ k = frames_read_from_queue
       /\ frames_read_from_queue' = k + 1
       /\ \A j \in futures \cup DOMAIN results \cup Written : j < k]_vars

\* frames 0 and 1 were submitted in this order and frame 1 completed first
C27_Witness ==
  /\ frames_read_from_queue = 2
  /\ futures = { 0, 1 }
  /\ tasks[0].st = "running"
  /\ tasks[1].st = "done"

\* C28 -- configuration immutability: once process_video has built
\* processing_params, no step of the reader, of a worker or of the control
\* loop changes it; the blur kernel size in it stays the one that was passed
\* in, even where create_mask blurred with the next odd size.
C28_ParamsImmutable ==
  /\ [][processing_params # NoParams =>
          processing_params' = processing_params]_vars
  /\ [](processing_params # NoParams =>
          processing_params.blur_kernel_size = blur_kernel_size)

\* the reader has exited, the control loop is about to collect a frame whose
\* mask was blurred with kernel size 3, and processing_params holds the even
\* size 2 it was built with
C28_Witness ==
  /\ c_pc = "collect"
  /\ r_pc = "exited"
  /\ processing_params.blur_kernel_size = 2
  /\ \E k \in DOMAIN tasks :
       /\ tasks[k].st = "done"
       /\ tasks[k].out.mask # None
       /\ tasks[k].out.mask.blur = << 3 >>

\* C29 -- post-processing once per frame: a mask create_mask made holds the
\* drawing of every person of the frame, and it was dilated once if
\* dilation_iterations > 0 and not at all otherwise, blurred once if
\* blur_kernel_size > 1 and not at all otherwise, however many persons
\* there are.
C29_PostProcessOnce ==
  \A k \in Detections :
    LET mask == tasks[k].out.mask
    IN  /\ Len(mask.drawn) = Len(Persons(k))
        /\ mask.dilate = IF dilation_iterations > 0
                         THEN << dilation_iterations >>
                         ELSE << >>
        /\ Len(mask.blur) = IF blur_kernel_size > 1 THEN 1 ELSE 0

\* two persons on one mask that was dilated once, with MaxIterations
\* iterations, and blurred once
C29_Witness ==
  \E k \in Detections :
    /\ Len(Persons(k)) = 2
    /\ Len(tasks[k].out.mask.drawn) = 2
    /\ tasks[k].out.mask.dilate = << MaxIterations >>
    /\ Len(tasks[k].out.mask.blur) = 1

\* C30 -- the kernel size of every blur is odd: an even blur_kernel_size
\* above 1 is blurred with blur_kernel_size + 1, an odd one as it is.
C30_BlurKernelOdd ==
  \A k \in Detections :
    \A i \in DOMAIN tasks[k].out.mask.blur :
      /\ tasks[k].out.mask.blur[i] % 2 = 1
      /\ tasks[k].out.mask.blur[i] =
           IF blur_kernel_size % 2 = 0
           THEN blur_kernel_size + 1
           ELSE blur_kernel_size

\* a mask blurred with kernel size MaxKernel + 1 for an even MaxKernel, or
\* with MaxKernel itself for an odd one
C30_Witness ==
  \E k \in Detections :
    /\ blur_kernel_size = MaxKernel
    /\ tasks[k].out.mask.blur = << MaxKernel + (1 - (MaxKernel % 2)) >>

\* C31 -- independent runs: invocations of process_video that run at the same
\* time hold different queue and abort-flag objects; a step of one leaves the
\* locals, the queue and the abort flag of the other as they were; the abort
\* flag of an invocation is set only by its own failed write or its own
\* cleanup, so its reader is not stopped short of the end of its source and
\* every frame of its source is written unless its own sink failed.
C31_IndependentRuns ==
  /\ [](\A a, b \in Runs :
          (a # b /\ runs[a].c_pc # "start" /\ runs[b].c_pc # "start")
            => /\ runs[a].frame_queue # runs[b].frame_queue
               /\ runs[a].processing_done # runs[b].processing_done)
  /\ [][LET RunView(r) ==
              IF runs[r].c_pc # "start"
              THEN << runs[r], queues[runs[r].frame_queue],
                      events[runs[r].processing_done] >>
              ELSE << runs[r] >>
        IN  \A a, b \in Runs :
              a # b => (RunView(a)' = RunView(a) \/ RunView(b)' = RunView(b))]_vars
  /\ [](\A b \in Runs :
          runs[b].c_pc # "start"
            => /\ events[runs[b].processing_done]
                    => (runs[b].pipe_broken \/ runs[b].c_pc = "done")
               /\ (runs[b].r_pc = "exited" /\ ~runs[b].pipe_broken)
                    => runs[b].cap_pos = runs[b].frames
               /\ (runs[b].c_pc = "done" /\ ~runs[b].pipe_broken)
                    => runs[b].sink = [i \in 1..runs[b].frames |-> i - 1])

\* invocation 1 has aborted at its first write and returned, while the reader
\* of invocation 2 goes on reading its source and its first frame is written
C31_Witness ==
  /\ runs[1].pipe_broken
  /\ runs[1].c_pc = "done"
  /\ runs[1].sink = << >>
  /\ runs[2].r_pc = "loop"
  /\ runs[2].cap_pos < runs[2].frames
  /\ ~events[runs[2].processing_done]
  /\ runs[2].sink = << 0 >>

\* C32 -- no frame is lost by the reader: when the reader is at its put of a
\* frame the queue has room, so the put never raises queue.Full; the frame it
\* puts is the one it has just read, under the next index, and every read is
\* followed by that put; no frame of the source is in the queue twice.
C32_NoFrameLost ==
  /\ [](r_pc = "put" => QueueHasRoom(frame_queue, QueueMaxsize(num_threads)))
  /\ [][(r_pc = "put" /\ r_pc' # "put")
          => /\ r_frame.pos = cap_pos - 1
             /\ frame_queue' = Append(frame_queue, << r_frame, frame_idx >>)]_vars
  /\ [][cap_pos' # cap_pos
          => /\ r_pc' = "put"
             /\ r_frame'.pos = cap_pos
             /\ cap_pos' = cap_pos + 1]_vars
  /\ [](\A i, j \in 1..Len(QueuedTasks) :
          i # j => QueuedTasks[i][1].pos # QueuedTasks[j][1].pos)

\* the queue was full with the reader held back, the control loop has taken
\* one frame, and the reader is at the put of the frame it read since
C32_Witness ==
  /\ r_pc = "put"
  /\ r_frame.pos = QueueMaxsize(num_threads)
  /\ Len(frame_queue) = QueueMaxsize(num_threads) - 1
  /\ frames_read_from_queue = 1

\* C33 -- no frame is lost by the reader of main.py: the put that follows a
\* read appends the frame just read to the queue, and the frame at position p
\* of the source gets the index p, however slowly the control loop takes
\* frames from the queue.
C33_MainNoFrameLost ==
  /\ [][(r_pc = "put" /\ r_pc' # "put")
          => frame_queue' = Append(frame_queue, << r_frame, frame_idx >>)]_vars
  /\ [](\A i \in 1..Len(QueuedTasks) :
          QueuedTasks[i][1].pos = QueuedTasks[i][2])

C35_CounterChain ==
  /\ [](/\ frames_written <= frames_processed
        /\ frames_processed <= frames_read_from_queue
        /\ frames_read_from_queue <= frame_read_count
        /\ ~pipe_broken
             => frames_read_from_queue
                  = frames_processed + Cardinality(futures))
  /\ [][/\ frames_read_from_queue' # frames_read_from_queue
            <=> (DOMAIN tasks' \ DOMAIN tasks) # {}
        /\ frames_read_from_queue' # frames_read_from_queue
            => /\ frames_read_from_queue' = frames_read_from_queue + 1
               /\ Cardinality(DOMAIN tasks' \ DOMAIN tasks) = 1
               /\ futures' = futures \cup (DOMAIN tasks' \ DOMAIN tasks)
        /\ (end_of_frames_signal_received' /\ ~end_of_frames_signal_received)
            => frames_read_from_queue' = frames_read_from_queue]_vars

\* the sentinel was taken from the queue after every frame of the source, one
\* task is in flight, and a frame collected is not yet written
C35_Witness ==
  /\ end_of_frames_signal_received
  /\ frames_read_from_queue = video.frames
  /\ frames_processed < frames_read_from_queue
  /\ frames_written < frames_processed
  /\ c_pc = "loop"

\* C36 -- in-flight bound: at most 2 * num_threads submitted tasks are
\* uncollected; the reassembly buffer holds Results only while the frame at
\* the cursor is in flight, all of them of later frames, and is bounded by
\* the number of frames of the source and by nothing less: it comes to hold
\* every frame but the one at the cursor.
C36_InFlightBound ==
  /\ Cardinality(futures) <= 2 * num_threads
  /\ Cardinality(DOMAIN results) < Max(video.frames, 1)
  /\ (DOMAIN results # {} /\ ~pipe_broken)
       => /\ next_frame_to_write \in futures
          /\ \A k \in DOMAIN results : k > next_frame_to_write

\* with two workers, one of them still at frame 0, the Results of all other
\* frames of the source wait in the buffer
C36_Witness ==
  /\ num_threads = 2
  /\ futures = { 0 }
  /\ next_frame_to_write = 0
  /\ DOMAIN results = 1..(video.frames - 1)
  /\ Cardinality(DOMAIN results) >= 2 * num_threads
  /\ c_pc = "loop"

\* C37 -- end of stream always observed: once the reader thread has exited and
\* the queue is empty the control loop marks the end of the frames, whether or
\* not it dequeued a sentinel, unless it aborted first; it marks the end
\* without dequeuing only then, and never while a frame the reader enqueued
\* still waits in the queue.
C37_EndObserved ==
  /\ (r_pc = "exited" /\ frame_queue = << >>)
       ~> (end_of_frames_signal_received \/ pipe_broken)
  /\ [](end_of_frames_signal_received => QueuedTasks = << >>)
  /\ [][(end_of_frames_signal_received' /\ ~end_of_frames_signal_received
           /\ frame_queue' = frame_queue)
            => (r_pc = "exited" /\ frame_queue = << >>)]_vars

\* the reader died before the end of the source, so no sentinel was ever
\* enqueued, and the loop has ended and written what had been read
C37_Witness ==
  /\ r_pc = "exited"
  /\ cap_pos < video.frames
  /\ ~processing_done
  /\ end_of_frames_signal_received
  /\ frames_read_from_queue = cap_pos
  /\ cap_pos > 0
  /\ c_pc = "shutdown"

\* C38 -- detect_pose never propagates an error: it returns None for a None
\* frame, for a frame with a non-positive dimension or a channel count other
\* than 3, for a missing model signature or input size, and when the detector
\* raises (the resize of a frame too flat for the canvas); process_frame then
\* detects nobody and emits a Result for the same index whose alpha channel
\* is all zero.
C38_DetectorErrorsContained ==
  LET detected(shape) ==
        detect_pose(shape, movenet_signature, model_input_size,
                    confidence_threshold)
      source_frame == << video.height, video.width, 3 >>
  IN  /\ detected(<< >>) = None
      /\ \A h, w \in -1..2, channels \in { 1, 3, 4 } :
            (h <= 0 \/ w <= 0 \/ channels # 3)
              => detected(<< h, w, channels >>) = None
      /\ (movenet_signature = None \/ model_input_size = 0
            \/ video.height * model_input_size < video.width)
           => detected(source_frame) = None
      /\ \A k \in DOMAIN tasks :
            (/\ tasks[k].st = "done"
             /\ ~tasks[k].out.raised
             /\ tasks[k].out.frame.kind = "composited"
             /\ detected(source_frame) = None)
              => /\ tasks[k].out.idx = k
                 /\ tasks[k].out.persons_keypoints = None
                 /\ tasks[k].out.frame.shape
                      = << video.height, video.width, 4 >>
                 /\ AllZero(tasks[k].out.mask)
                 /\ tasks[k].out.frame.pixel.alpha = 0

\* a frame processed without a model signature was composited with a mask
\* of zeros, and its Result waits to be collected
C38_Witness ==
  /\ movenet_signature = None
  /\ model_input_size = ModelInputSize
  /\ video.width = 4
  /\ 0 \in DOMAIN tasks
  /\ tasks[0].st = "done"
  /\ tasks[0].out.frame.kind = "composited"
  /\ tasks[0].out.persons_keypoints = None
  /\ AllZero(tasks[0].out.mask)
  /\ 0 \in futures

\* C39 -- multi-pose gating: of the rows of a multi-pose output exactly those
\* whose person score is strictly above the threshold are returned, in their
\* order; a keypoint of a returned person whose score is not above the
\* threshold has the coordinates (0, 0) and its score as reported; and the
\* torso, every line and every disk create_mask draws uses only keypoints
\* whose score is above that threshold, so none with zeroed coordinates.
C39_MultiPoseGating ==
  \A k \in Detections :
    Len(movenet_signature[1]) > 1 =>
      LET above == SelectSeq(movenet_signature[1],
                             LAMBDA row : row.score > confidence_threshold)
          zeroed(p) == { j \in Keypoints :
                           Persons(k)[p][j].score <= confidence_threshold }
          drawn == tasks[k].out.mask.drawn
      IN  /\ Len(Persons(k)) = Len(above)
          /\ DOMAIN drawn = DOMAIN Persons(k)
          /\ \A p \in DOMAIN Persons(k) :
                /\ \A j \in Keypoints :
                     Persons(k)[p][j].score = above[p].keypoints[j].score
                /\ \A j \in zeroed(p) :
                     /\ Persons(k)[p][j].y = << 0, 1 >>
                     /\ Persons(k)[p][j].x = << 0, 1 >>
                /\ drawn[p].polygons # {}
                     => zeroed(p) \cap { KEYPOINT_DICT.left_shoulder,
                                         KEYPOINT_DICT.right_shoulder,
                                         KEYPOINT_DICT.left_hip,
                                         KEYPOINT_DICT.right_hip } = {}
                /\ \A l \in drawn[p].lines :
                     l.kp1 \notin zeroed(p) /\ l.kp2 \notin zeroed(p)
                /\ \A c \in drawn[p].circles : c.kp \notin zeroed(p)

\* of two rows the one above the threshold was returned; its left shoulder,
\* reported at the threshold away from the frame's corner, was zeroed, and
\* lines and disks were drawn for its other keypoints
C39_Witness ==
  /\ 0 \in Detections
  /\ Len(movenet_signature[1]) = 2
  /\ Len(Persons(0)) = 1
  /\ movenet_signature[1][1].keypoints[KEYPOINT_DICT.left_shoulder].y[1] > 0
  /\ Persons(0)[1][KEYPOINT_DICT.left_shoulder]
       = [y |-> << 0, 1 >>, x |-> << 0, 1 >>, score |-> confidence_threshold]
  /\ tasks[0].out.mask.drawn[1].polygons = {}
  /\ tasks[0].out.mask.drawn[1].lines # {}
  /\ tasks[0].out.mask.drawn[1].circles # {}

====
